---- MODULE Spec2Model ----
(***************************************************************************)
(* PL-Ecosystem-Dashboard: the batched on-chain aggregation engine.        *)
(*                                                                         *)
(*   src/App.tsx            runBatchUpdate (the Batch Run Controller)      *)
(*   src/unnamed/part_000   queryAddressFullData (Snapshot Orchestrator),  *)
(*                          batchQueryDynamicDetails (Variable-Length      *)
(*                          Collection Fetcher), queryTotalStaking         *)
(*                                                                         *)
(* The program is single threaded with non-blocking I/O.  Every network    *)
(* round trip is a suspension point: a request is issued, and a later      *)
(* step settles it with a response or a network error.  One action of the  *)
(* model is one such settlement together with all the code that runs, up   *)
(* to the next suspension point, as a consequence of it.                   *)
(***************************************************************************)
EXTENDS Integers, Sequences, FiniteSets, TLC

(***************************************************************************)
(* Bounds of the model.                                                    *)
(***************************************************************************)
\* longest address list a run starts from
MaxRows == 2
\* contracts in each of the two contract families (the lists of
\* ../constants are not part of the sources at hand)
NumContracts == 2
\* largest collection length a count call reports
MaxCount == 60
\* invocations of runBatchUpdate that follow one another
MaxRuns == 2
\* latest reading of the clock
MaxClock == 2
\* longest address list of a run in which every query fails at once
MaxAddresses == 40
\* calls of getProvider
MaxLookups == 4
\* hex digits of the addresses a payload is built for
HexDigits == 2
\* invocations of runBatchUpdate while an earlier one is in flight
MaxIgnored == 2
\* remark edits and imports in a behaviour
MaxEdits == 2

(***************************************************************************)
(* Program constants.                                                      *)
(***************************************************************************)
CHUNK_SIZE == 50

(***************************************************************************)
(* Strings.  An address is a string; it is modelled as the sequence of its *)
(* characters so that toLowerCase is computed character by character.      *)
(***************************************************************************)
LowerChar(c) ==
    CASE c = "A" -> "a"
      [] c = "B" -> "b"
      [] c = "C" -> "c"
      [] c = "D" -> "d"
      [] c = "E" -> "e"
      [] c = "F" -> "f"
      [] OTHER -> c

toLowerCase(s) == [j \in DOMAIN s |-> LowerChar(s[j])]

\* String.prototype.slice(start), start counted from 0
slice(s, start) == SubSeq(s, start + 1, Len(s))

ZeroAddress == <<"0", "x", "0">>

\* the account an address names, as a number the chain's answers depend on
AccountNo(addr) ==
    LET l == toLowerCase(addr)
    IN  CASE l = <<"0", "x", "a">> -> 1
          [] l = <<"0", "x", "b">> -> 2
          [] l = <<"0", "x", "d">> -> 3
          [] l = <<"0", "x", "e">> -> 4
          [] OTHER -> 0

(***************************************************************************)
(* types.ts                                                                *)
(***************************************************************************)
StakingData(ts, mint, bond, zhu, tur, lgns, slgns) ==
    [ totalStaking |-> ts, airdropEnergyStaking |-> mint, bondStaking |-> bond,
      zhuwangReward |-> zhu, turbineBalance |-> tur,
      lgnsBalance |-> lgns, slgnsBalance |-> slgns ]

SnapshotFields ==
    { "totalStaking", "airdropEnergyStaking", "bondStaking", "zhuwangReward",
      "turbineBalance", "lgnsBalance", "slgnsBalance" }

\* the dynamic fields of a row that no query has populated yet
NoSnapshot == [ f \in SnapshotFields |-> -1 ]

\* types.ts: lastUpdated is 0 for a row that was never updated, the remark
\* is a string of characters
AddressInfo(a, d) ==
    [ aAddress |-> a, derivedAddress |-> d, remark |-> <<>>, log |-> "log",
      split |-> "split", snap |-> NoSnapshot, lastUpdated |-> 0 ]

(***************************************************************************)
(* The chain: what the contracts answer.  It is an input of the program,   *)
(* fixed for a behaviour.  Each simple contract answers in one of four     *)
(* ways, each collection contract reports a length or fails, and at most   *)
(* one item of each family is odd.                                         *)
(***************************************************************************)
VARIABLE chain

\* whether the fetches record, for the properties that speak of them, that a
\* round trip failed (netErr) or that a decode threw (threw); the program's
\* behaviour does not depend on it
VARIABLE audit

\* what Date.now() reads
VARIABLE clock

Families == { "stake", "bond" }

\* constants.ts: AIRDROP_A_ENERGY_STAKE_CONTRACTS, BOND_CONTRACT_ADDRESSES
Contracts(f) == [ c \in 1..NumContracts |-> <<f, c>> ]

TURBINE_ADDRESS == <<"turbine", 0>>
ZHUWANG_ADDRESS == <<"zhuwang", 0>>
LGNS_TOKEN == <<"lgns", 0>>
SLGNS_TOKEN == <<"slgns", 0>>

\* "ok": a value, "zero": the value 0, "rev": the call reverts,
\* "empty": the call succeeds and returns no bytes (no code at the target)
SimpleKinds == { "ok", "zero", "rev", "empty" }
\* answers of the total-staking query contract
TotalKinds == { "ok", "zero", "0x", "short", "sfalse", "bad" }
\* a count call reports the length n of the collection ("len"), reverts
\* although the collection holds n items ("rev"), or returns no bytes
CountLengths == { 0, 1, CHUNK_SIZE, MaxCount }
Length(n) == [ kind |-> "len", n |-> n ]
CountReverts == [ kind |-> "rev", n |-> 1 ]
CountEmpty == [ kind |-> "empty", n |-> 0 ]
CountKinds ==
    { CountReverts, CountEmpty } \cup { Length(n) : n \in CountLengths }
\* how the odd item answers: it reverts, it returns bytes that do not
\* decode, or it decodes to an item the extraction rule filters out
OddKinds == { "rev", "bad", "filtered" }
OddIndexes == { 0, 1, CHUNK_SIZE - 1, CHUNK_SIZE, MaxCount - 1 }
NoOdd == [ c |-> 0, i |-> 0, kind |-> "none" ]
Odds ==
    { NoOdd } \cup [ c : 1..NumContracts, i : OddIndexes, kind : OddKinds ]

NominalChain ==
    [ simple |-> [ t \in { "turbine", "zhuwang", "lgns", "slgns" } |-> "ok" ],
      total  |-> "ok",
      count  |-> [ f \in Families |-> [ c \in 1..NumContracts |-> Length(0) ] ],
      odd    |-> [ f \in Families |-> NoOdd ] ]

\* what a reverted call leaves in returnData: bytes that must not be decoded
RevertData == <<99, 99>>

(***************************************************************************)
(* CallDescriptor and CallOutcome; the contracts' answers.                 *)
(***************************************************************************)
Call(target, fn, arg, index) ==
    [ target |-> target, fn |-> fn, arg |-> arg, index |-> index ]

Outcome(success, returnData) ==
    [ success |-> success, returnData |-> returnData ]

SimpleValue(call) ==
    CASE call.target = TURBINE_ADDRESS /\ call.fn = "getTurbineBal"
           -> 10 + AccountNo(call.arg)
      [] call.target = ZHUWANG_ADDRESS /\ call.fn = "claimable"
           -> 20 + AccountNo(call.arg)
      [] call.target = LGNS_TOKEN /\ call.fn = "balanceOf"
           -> 30 + AccountNo(call.arg)
      [] call.target = SLGNS_TOKEN /\ call.fn = "balanceOf"
           -> 40 + AccountNo(call.arg)
      [] OTHER -> -1

SimpleAnswer(ch, call) ==
    LET kind == ch.simple[call.target[1]]
    IN  CASE SimpleValue(call) = -1 -> Outcome(FALSE, RevertData)
          [] kind = "ok"    -> Outcome(TRUE, <<SimpleValue(call)>>)
          [] kind = "zero"  -> Outcome(TRUE, <<0>>)
          [] kind = "rev"   -> Outcome(FALSE, RevertData)
          [] OTHER          -> Outcome(TRUE, <<>>)

CountAnswer(ch, call) ==
    LET cnt == ch.count[call.target[1]][call.target[2]]
    IN  CASE cnt.kind = "rev"   -> Outcome(FALSE, RevertData)
          [] cnt.kind = "empty" -> Outcome(TRUE, <<>>)
          [] OTHER              -> Outcome(TRUE, <<cnt.n>>)

\* a stake item is <<principal, exists>>, a bond item is <<payout, owner>>
ItemAnswer(ch, call) ==
    LET f    == call.target[1]
        c    == call.target[2]
        cnt  == ch.count[f][c]
        odd  == ch.odd[f]
        isOdd == odd.kind # "none" /\ odd.c = c /\ odd.i = call.index
    IN  CASE call.index >= cnt.n       -> Outcome(FALSE, RevertData)
          [] isOdd /\ odd.kind = "rev" -> Outcome(FALSE, RevertData)
          [] isOdd /\ odd.kind = "bad" -> Outcome(TRUE, <<>>)
          [] isOdd /\ f = "stake"      -> Outcome(TRUE, <<5, FALSE>>)
          [] isOdd /\ f = "bond"       -> Outcome(TRUE, <<5, ZeroAddress>>)
          [] f = "stake"               -> Outcome(TRUE, <<1, TRUE>>)
          [] OTHER                     -> Outcome(TRUE, <<2, call.arg>>)

CallAnswer(ch, call) ==
    CASE call.fn \in { "getUserStakesCount", "getBondInfoDataLength" }
           -> CountAnswer(ch, call)
      [] call.fn \in { "stakes", "bondInfoData" } -> ItemAnswer(ch, call)
      [] OTHER -> SimpleAnswer(ch, call)

\* Multicall3.tryAggregate(false, calls): one outcome per call, in order; a
\* reverting call is an outcome with success = false
tryAggregate(ch, calls) == [ j \in DOMAIN calls |-> CallAnswer(ch, calls[j]) ]

(***************************************************************************)
(* iface.decodeFunctionResult: it throws when the bytes do not hold the    *)
(* expected return values.                                                 *)
(***************************************************************************)
DecodeUint(returnData) ==
    IF Len(returnData) >= 1
    THEN [ threw |-> FALSE, value |-> returnData[1] ]
    ELSE [ threw |-> TRUE, value |-> 0 ]

DecodeItem(returnData) ==
    IF Len(returnData) >= 2
    THEN [ threw |-> FALSE, first |-> returnData[1], second |-> returnData[2] ]
    ELSE [ threw |-> TRUE, first |-> 0, second |-> 0 ]

(***************************************************************************)
(* getProvider (part_000:21-40) and the two variables of the module.  A    *)
(* provider is the object new ethers.JsonRpcProvider(url) creates: id      *)
(* tells the objects apart, in the order of their creation.                *)
(***************************************************************************)
VARIABLES
    currentProvider,  \* let currentProvider: ethers.JsonRpcProvider | null
    currentRpcUrl,    \* let currentRpcUrl: string | null
    lookups           \* the calls of getProvider so far, each with the URL
                      \* it was given and the provider it returned

\* ./constants: DEFAULT_RPC
DEFAULT_RPC == "https://default.rpc"
\* lines 35-36
FALLBACK_RPC == "https://polygon-bor-rpc.publicnode.com"

\* the URLs getProvider is called with; the constructor throws for the
\* invalid ones
Urls == { DEFAULT_RPC, "https://other.rpc", "not a url", FALLBACK_RPC }
InvalidUrls == { "not a url" }

\* null
NoProvider == [ id |-> 0, url |-> "" ]

JsonRpcProvider(url, id) == [ id |-> id, url |-> url ]

\* lines 27-40: the two variables after the call; the provider returned is
\* currentProvider
getProvider(cur, curUrl, rpcUrl) ==
    IF cur = NoProvider \/ curUrl # rpcUrl
    THEN IF rpcUrl \notin InvalidUrls
         THEN [ currentProvider |-> JsonRpcProvider(rpcUrl, cur.id + 1),
                currentRpcUrl   |-> rpcUrl ]
         ELSE [ currentProvider |-> JsonRpcProvider(FALLBACK_RPC, cur.id + 1),
                currentRpcUrl   |-> FALLBACK_RPC ]
    ELSE [ currentProvider |-> cur, currentRpcUrl |-> curUrl ]

\* a call of getProvider(rpcUrl), as a step
lookup(rpcUrl) ==
    LET r == getProvider(currentProvider, currentRpcUrl, rpcUrl)
    IN  /\ currentProvider' = r.currentProvider
        /\ currentRpcUrl' = r.currentRpcUrl
        /\ lookups' = IF audit
                      THEN Append(lookups, [ rpcUrl   |-> rpcUrl,
                                             provider |-> r.currentProvider ])
                      ELSE lookups

(***************************************************************************)
(* queryTotalStaking (part_000:45-63).  The answer of provider.call is     *)
(* "0x", bytes that do not decode, or an encoded (successes[], results[]). *)
(***************************************************************************)
\* line 48: the text of the template before and after the substituted
\* ${userAddress_outwith0x}
TEMPLATE_HEAD ==
    "0xffd7d741"
      \o "0000000000000000000000000000000000000000000000000000000000000020"
      \o "0000000000000000000000000000000000000000000000000000000000000002"
      \o "0000000000000000000000000000000000000000000000000000000000000040"
      \o "0000000000000000000000000000000000000000000000000000000000000160"
      \o "0000000000000000000000000000000000000000000000000000000000000000"
      \o "0000000000000000000000000000000000000000000000000000000000000000"
      \o "0000000000000000000000000000000000000000000000000000000000000000"
      \o "00000000000000000000000099a57e6c8558bc6689f894e068733adf83c19725"
      \o "0000000000000000000000000000000000000000000000000000000000000000"
      \o "00000000000000000000000000000000000000000000000000000000000000c0"
      \o "0000000000000000000000000000000000000000000000000000000000000024"
      \o "7965d56d00000000000000000000000000000000000000000000000000000000"
      \o "0000000000000000000000000000000000000000000000000000000000000000"
      \o "0000000000000000000000000000000000000000000000000000000000000000"
      \o "0000000000000000000000000000000000000000000000000000000000000000"
      \o "0000000000000000000000000000000000000000000000000000000000000000"
      \o "0000000000000000000000000309ca717d6989676194b88fd06029a88ceefee6"
      \o "0000000000000000000000000000000000000000000000000000000000000000"
      \o "00000000000000000000000000000000000000000000000000000000000000c0"
      \o "0000000000000000000000000000000000000000000000000000000000000064"
      \o "5ac983f400000000000000000000000099a57e6c8558bc6689f894e068733adf"
      \o "83c197250000000000000000000000001964ca90474b11ffd08af387b110ba6c"
      \o "96251bfc000000000000000000000000"

TEMPLATE_TAIL ==
    "00000000000000000000000000000000000000000000000000000000"

\* a payload that takes the address as it is spelled
callData_noLowerCase(address) ==
    LET userAddress_outwith0x == slice(address, 2)
    IN  << TEMPLATE_HEAD >> \o userAddress_outwith0x \o << TEMPLATE_TAIL >>

\* lines 47-48: the payload, as the head of the template, the characters
\* put in its slot, and the tail of the template
callData(address) ==
    LET userAddress_outwith0x == toLowerCase(slice(address, 2))
    IN  << TEMPLATE_HEAD >> \o userAddress_outwith0x \o << TEMPLATE_TAIL >>

\* the account the contract reads in the slot of the payload it receives
PayloadAccount(data) ==
    AccountNo(<< "0", "x" >> \o SubSeq(data, 2, Len(data) - 1))

TotalAnswer(ch, data) ==
    CASE ch.total = "0x"  -> [ raw |-> "0x", successes |-> <<>>, results |-> <<>> ]
      [] ch.total = "bad" -> [ raw |-> "bad", successes |-> <<>>, results |-> <<>> ]
      [] ch.total = "short" ->
           [ raw |-> "data", successes |-> <<TRUE>>, results |-> <<7>> ]
      [] ch.total = "sfalse" ->
           [ raw |-> "data", successes |-> <<TRUE, FALSE>>,
             results |-> <<7, 50 + PayloadAccount(data)>> ]
      [] ch.total = "zero" ->
           [ raw |-> "data", successes |-> <<TRUE, TRUE>>, results |-> <<7, 0>> ]
      [] OTHER ->
           [ raw |-> "data", successes |-> <<TRUE, TRUE>>,
             results |-> <<7, 50 + PayloadAccount(data)>> ]

\* a variant that takes the first sub-result for the total
queryTotalStaking_firstResult(ch, address, ok) ==
    LET result == TotalAnswer(ch, callData(address))
    IN  IF ~ok THEN 0
        ELSE IF result.raw = "0x" THEN 0
        ELSE IF result.raw = "bad" THEN 0
        ELSE IF Len(result.results) > 0 /\ result.successes[1]
             THEN result.results[1]
             ELSE 0

\* the value queryTotalStaking returns once provider.call has settled:
\* ok = FALSE is a network error, caught at line 59
queryTotalStaking(ch, address, ok) ==
    LET result == TotalAnswer(ch, callData(address))
    IN  IF ~ok THEN 0
        ELSE IF result.raw = "0x" THEN 0
        ELSE IF result.raw = "bad" THEN 0
        ELSE IF Len(result.results) > 1 /\ result.successes[2]
             THEN result.results[2]
             ELSE 0

(***************************************************************************)
(* batchQueryDynamicDetails (part_000:68-122).                             *)
(***************************************************************************)
countMethod(f) ==
    IF f = "stake" THEN "getUserStakesCount" ELSE "getBondInfoDataLength"

itemMethod(f) == IF f = "stake" THEN "stakes" ELSE "bondInfoData"

\* extraction rules that take the amount of every decoded item
resultExtractor_noFilter(f, decoded) == decoded.first

\* the two extraction rules queryAddressFullData passes (lines 158, 167)
resultExtractor(f, decoded) ==
    IF f = "stake"
    THEN (IF decoded.second THEN decoded.first ELSE 0)
    ELSE (IF decoded.second # ZeroAddress THEN decoded.first ELSE 0)

\* lines 82-85
countCalls(f, address) ==
    [ c \in 1..NumContracts |->
        Call(Contracts(f)[c], countMethod(f), address, -1) ]

\* lines 94-99: the item calls of one contract, indexes 0 .. count-1
itemCallsOf(f, address, idx, count) ==
    [ n \in 1..count |->
        Call(Contracts(f)[idx], itemMethod(f), address, n - 1) ]

\* a loop that a failed count call ends: the contracts after it are dropped
RECURSIVE enqueueItems_stopAtFailure(_, _, _, _, _)
enqueueItems_stopAtFailure(f, address, countsResults, idx, acc) ==
    IF idx > Len(countsResults)
    THEN [ threw |-> FALSE, itemCalls |-> acc ]
    ELSE IF countsResults[idx].success
         THEN LET d == DecodeUint(countsResults[idx].returnData)
              IN  IF d.threw
                  THEN [ threw |-> TRUE, itemCalls |-> acc ]
                  ELSE enqueueItems_stopAtFailure(
                           f, address, countsResults, idx + 1,
                           acc \o itemCallsOf(f, address, idx, d.value))
         ELSE [ threw |-> FALSE, itemCalls |-> acc ]

\* lines 91-101: countsResults.forEach from position idx on; a count that
\* does not decode throws out of the loop
RECURSIVE enqueueItems(_, _, _, _, _)
enqueueItems(f, address, countsResults, idx, acc) ==
    IF idx > Len(countsResults)
    THEN [ threw |-> FALSE, itemCalls |-> acc ]
    ELSE IF countsResults[idx].success
         THEN LET d == DecodeUint(countsResults[idx].returnData)
              IN  IF d.threw
                  THEN [ threw |-> TRUE, itemCalls |-> acc ]
                  ELSE enqueueItems(f, address, countsResults, idx + 1,
                                    acc \o itemCallsOf(f, address, idx, d.value))
         ELSE enqueueItems(f, address, countsResults, idx + 1, acc)

\* lines 110-115: itemsResults.forEach from position j on; an item that
\* does not decode throws out of the loop with the total so far
RECURSIVE sumItems(_, _, _, _)
sumItems(f, itemsResults, j, total) ==
    IF j > Len(itemsResults)
    THEN [ threw |-> FALSE, total |-> total ]
    ELSE IF itemsResults[j].success
         THEN LET decoded == DecodeItem(itemsResults[j].returnData)
                  added == total + resultExtractor(f, decoded)
              IN  IF decoded.threw
                  THEN [ threw |-> TRUE, total |-> total ]
                  ELSE CASE added \in Int ->  \* total is a bigint
                         sumItems(f, itemsResults, j + 1, added)
         ELSE sumItems(f, itemsResults, j + 1, total)

Min(a, b) == IF a < b THEN a ELSE b

\* a slice that is one call short: itemCalls.slice(i, i + CHUNK_SIZE - 1)
chunkAt_oneShort(itemCalls, i) ==
    SubSeq(itemCalls, i + 1, Min(i + CHUNK_SIZE - 1, Len(itemCalls)))

\* line 108: itemCalls.slice(i, i + CHUNK_SIZE), i counted from 0
chunkAt(itemCalls, i) ==
    SubSeq(itemCalls, i + 1, Min(i + CHUNK_SIZE, Len(itemCalls)))

\* A running fetch: pc is "count" while the count batch is in flight,
\* "chunk" while the item chunk starting at i is in flight, "done" once it
\* has returned total.  itemCalls is the local array of that name, as far
\* as it was filled.  trips lists the item round trips issued so far, each
\* as the chunk it carried.
IdleFetch ==
    [ pc |-> "idle", f |-> "stake", address |-> <<>>, itemCalls |-> <<>>,
      i |-> 0, total |-> 0, trips |-> <<>>, threw |-> FALSE, netErr |-> FALSE ]

\* the call: everything up to the await of line 88
batchQueryDynamicDetails(f, address) ==
    [ IdleFetch EXCEPT !.pc = "count", !.f = f, !.address = address ]

\* a fetch without the test of line 103: it sends the empty list of item
\* calls as a chunk
countSettled_noEarlyReturn(ch, fr, ok) ==
    IF ~ok
    THEN [ fr EXCEPT !.pc = "done", !.netErr = audit ]
    ELSE LET countsResults == tryAggregate(ch, countCalls(fr.f, fr.address))
             r == enqueueItems(fr.f, fr.address, countsResults, 1, <<>>)
         IN  IF r.threw
             THEN [ fr EXCEPT !.pc = "done", !.threw = audit,
                              !.itemCalls = r.itemCalls ]
             ELSE [ fr EXCEPT !.pc = "chunk", !.itemCalls = r.itemCalls,
                              !.i = 0,
                              !.trips = <<chunkAt(r.itemCalls, 0)>> ]

\* line 88 resumes: ok = FALSE is a network error of the round trip
countSettled(ch, fr, ok) ==
    IF ~ok
    THEN [ fr EXCEPT !.pc = "done", !.netErr = audit ]
    ELSE LET countsResults == tryAggregate(ch, countCalls(fr.f, fr.address))
             r == enqueueItems(fr.f, fr.address, countsResults, 1, <<>>)
         IN  IF r.threw
             THEN [ fr EXCEPT !.pc = "done", !.threw = audit,
                              !.itemCalls = r.itemCalls ]
             ELSE IF Len(r.itemCalls) = 0
             THEN [ fr EXCEPT !.pc = "done" ]
             ELSE [ fr EXCEPT !.pc = "chunk", !.itemCalls = r.itemCalls,
                              !.i = 0,
                              !.trips = <<chunkAt(r.itemCalls, 0)>> ]

\* a fetch whose total lives inside the try: what was summed is lost when
\* a round trip or a decode fails
chunkSettled_totalLost(ch, fr, ok) ==
    IF ~ok
    THEN [ fr EXCEPT !.pc = "done", !.total = 0, !.netErr = audit ]
    ELSE LET itemsResults == tryAggregate(ch, chunkAt(fr.itemCalls, fr.i))
             r == sumItems(fr.f, itemsResults, 1, fr.total)
             next == fr.i + CHUNK_SIZE
         IN  IF r.threw
             THEN [ fr EXCEPT !.pc = "done", !.total = 0, !.threw = audit ]
             ELSE IF next < Len(fr.itemCalls)
             THEN [ fr EXCEPT !.total = r.total, !.i = next,
                              !.trips = Append(@, chunkAt(fr.itemCalls, next)) ]
             ELSE [ fr EXCEPT !.pc = "done", !.total = r.total ]

\* line 109 resumes
chunkSettled(ch, fr, ok) ==
    IF ~ok
    THEN [ fr EXCEPT !.pc = "done", !.netErr = audit ]
    ELSE LET itemsResults == tryAggregate(ch, chunkAt(fr.itemCalls, fr.i))
             r == sumItems(fr.f, itemsResults, 1, fr.total)
             next == fr.i + CHUNK_SIZE
         IN  IF r.threw
             THEN [ fr EXCEPT !.pc = "done", !.total = r.total, !.threw = audit ]
             ELSE IF next < Len(fr.itemCalls)
             THEN [ fr EXCEPT !.total = r.total, !.i = next,
                              !.trips = Append(@, chunkAt(fr.itemCalls, next)) ]
             ELSE [ fr EXCEPT !.pc = "done", !.total = r.total ]

(***************************************************************************)
(* queryAddressFullData (part_000:127-184).                                *)
(***************************************************************************)
\* a batch that asks for all four values of the primary address
simpleCalls_allPrimary(aAddress, derivedAddress) ==
    << Call(TURBINE_ADDRESS, "getTurbineBal", aAddress, -1),
       Call(ZHUWANG_ADDRESS, "claimable", aAddress, -1),
       Call(LGNS_TOKEN, "balanceOf", aAddress, -1),
       Call(SLGNS_TOKEN, "balanceOf", aAddress, -1) >>

\* lines 140-145
simpleCalls(aAddress, derivedAddress) ==
    << Call(TURBINE_ADDRESS, "getTurbineBal", aAddress, -1),
       Call(ZHUWANG_ADDRESS, "claimable", aAddress, -1),
       Call(LGNS_TOKEN, "balanceOf", derivedAddress, -1),
       Call(SLGNS_TOKEN, "balanceOf", derivedAddress, -1) >>

\* a field that is decoded whatever the success flag says
simpleField_decodeAlways(res) == DecodeUint(res.returnData)

\* lines 175-178: res.success ? BigInt(decode(res.returnData)[0]) : 0n
simpleField(res) ==
    IF res.success
    THEN DecodeUint(res.returnData)
    ELSE [ threw |-> FALSE, value |-> 0 ]

\* lines 171-179: the object literal; a decode that throws leaves no object
buildSnapshot(simpleResults, totalStaking, mintStaked, bondStaked) ==
    LET tur   == simpleField(simpleResults[1])
        zhu   == simpleField(simpleResults[2])
        lgns  == simpleField(simpleResults[3])
        slgns == simpleField(simpleResults[4])
    IN  [ threw |-> tur.threw \/ zhu.threw \/ lgns.threw \/ slgns.threw,
          data  |-> StakingData(totalStaking, mintStaked, bondStaked,
                                zhu.value, tur.value, lgns.value, slgns.value) ]

\* One invocation of queryAddressFullData.  stat is "pending" until the
\* invocation returns ("ok", with result) or throws ("failed").  simple,
\* total and fetch are its four sub-fetches; each has a request in flight
\* while its pc is "wait", "count" or "chunk".  total.data is the payload
\* of the request of queryTotalStaking.
IdleQuery ==
    [ stat |-> "none", aAddress |-> <<>>, derivedAddress |-> <<>>,
      result |-> NoSnapshot,
      simple |-> [ pc |-> "idle", results |-> <<>> ],
      total  |-> [ pc |-> "idle", value |-> 0, data |-> <<>>,
                   netErr |-> FALSE ],
      fetch  |-> [ f \in Families |-> IdleFetch ] ]

\* the call: everything up to the await of line 148; the four sub-fetches
\* have each issued their first request
queryAddressFullData(aAddress, derivedAddress) ==
    [ stat |-> "pending", aAddress |-> aAddress,
      derivedAddress |-> derivedAddress, result |-> NoSnapshot,
      simple |-> [ pc |-> "wait", results |-> <<>> ],
      total  |-> [ pc |-> "wait", value |-> 0, data |-> callData(aAddress),
                   netErr |-> FALSE ],
      fetch  |-> [ f \in Families |-> batchQueryDynamicDetails(f, aAddress) ] ]

\* the sub-fetches of q that still have a request in flight
InFlight(q) ==
    (IF q.simple.pc = "wait" THEN { "simple" } ELSE {})
      \cup (IF q.total.pc = "wait" THEN { "total" } ELSE {})
      \cup { f \in Families : q.fetch[f].pc \in { "count", "chunk" } }

\* Promise.all of line 148 rejects as soon as one of its promises rejects,
\* and resolves when all four have resolved.  queryTotalStaking and
\* batchQueryDynamicDetails catch their errors, so only the simple batch
\* rejects.
promiseAll(q) ==
    IF q.simple.pc = "err" THEN "rejected"
    ELSE IF InFlight(q) = {} THEN "resolved"
    ELSE "waiting"

\* an orchestrator in which a fetch that met a network error rejects, so
\* that Promise.all rejects and the invocation throws
resumeQuery_fetchErrorAborts(q) ==
    IF q.stat # "pending" THEN q
    ELSE IF promiseAll(q) = "rejected" THEN [ q EXCEPT !.stat = "failed" ]
    ELSE IF \E f \in Families : q.fetch[f].netErr
    THEN [ q EXCEPT !.stat = "failed" ]
    ELSE IF promiseAll(q) = "resolved"
    THEN LET s == buildSnapshot(q.simple.results, q.total.value,
                                q.fetch["stake"].total, q.fetch["bond"].total)
         IN  IF s.threw
             THEN [ q EXCEPT !.stat = "failed" ]
             ELSE [ q EXCEPT !.stat = "ok", !.result = s.data ]
    ELSE q

\* lines 147-183 after a sub-fetch has settled: q with its outcome, if the
\* invocation is still pending and Promise.all has settled
resumeQuery(q) ==
    IF q.stat # "pending" THEN q
    ELSE IF promiseAll(q) = "rejected" THEN [ q EXCEPT !.stat = "failed" ]
    ELSE IF promiseAll(q) = "resolved"
    THEN LET s == buildSnapshot(q.simple.results, q.total.value,
                                q.fetch["stake"].total, q.fetch["bond"].total)
         IN  IF s.threw
             THEN [ q EXCEPT !.stat = "failed" ]
             ELSE [ q EXCEPT !.stat = "ok", !.result = s.data ]
    ELSE q

(***************************************************************************)
(* Numbers.  (i + 1) / length and its product with 100 are doubles: each   *)
(* is the exact value rounded to 53 significant bits, ties to even.  A     *)
(* double is m * 2^e, its significand m written as three limbs of 24 bits, *)
(* the most significant first.                                             *)
(***************************************************************************)
LIMB_BITS == 24
LIMB == 2 ^ LIMB_BITS
MANTISSA == 53

\* the number of bits of the natural number v
RECURSIVE BitLength(_)
BitLength(v) == IF v = 0 THEN 0 ELSE 1 + BitLength(v \div 2)

\* m shifted right by s bits, 0 <= s <= LIMB_BITS, and the bits shifted out
ShiftRight(m, s) ==
    LET d == 2 ^ s
        u == 2 ^ (LIMB_BITS - s)
    IN  [ m   |-> << m[1] \div d,
                     ((m[1] % d) * u) + (m[2] \div d),
                     ((m[2] % d) * u) + (m[3] \div d) >>,
          out |-> m[3] % d ]

\* m + 1
Increment(m) ==
    IF m[3] + 1 < LIMB THEN << m[1], m[2], m[3] + 1 >>
    ELSE IF m[2] + 1 < LIMB THEN << m[1], m[2] + 1, 0 >>
    ELSE << m[1] + 1, 0, 0 >>

\* m of more than MANTISSA bits cut to its MANTISSA leading bits and rounded
\* to nearest, ties to even; sticky tells that the exact value has bits
\* below those of m; drop is the number of bits cut
Rounded(m, sticky) ==
    LET drop  == BitLength(m[1]) + 2 * LIMB_BITS - MANTISSA
        sh    == ShiftRight(m, drop)
        half  == 2 ^ (drop - 1)
        guard == sh.out \div half
        rest  == sticky \/ (sh.out % half) # 0
        up    == guard = 1 /\ (rest \/ (sh.m[3] % 2) = 1)
    IN  [ m |-> IF up THEN Increment(sh.m) ELSE sh.m, drop |-> drop ]

\* the double r.m * 2^(e + r.drop): rounding up may have carried into one
\* more bit
Normalized(r, e) ==
    IF BitLength(r.m[1]) + 2 * LIMB_BITS > MANTISSA
    THEN [ m |-> ShiftRight(r.m, 1).m, e |-> e + r.drop + 1 ]
    ELSE [ m |-> r.m, e |-> e + r.drop ]

\* the double nearest to m * 2^e, for m of more than MANTISSA bits; the
\* significand and its rounding are each computed once
RoundToDouble(m, e, sticky) ==
    CHOOSE x \in { Normalized(r, e) :
                     r \in { Rounded(v, sticky) : v \in { m } } } : TRUE

\* the binary places by which c / n lies below the interval [1/2, 1)
RECURSIVE LeadingZeros(_, _)
LeadingZeros(c, n) == IF 2 * c >= n THEN 0 ELSE 1 + LeadingZeros(2 * c, n)

\* the double c / n, for 1 <= c <= n: a long division that yields 6, 24
\* and 24 bits of the quotient
Divide(c, n) ==
    LET z  == LeadingZeros(c, n)
        r0 == c * 2 ^ z
        q1 == (r0 * 64) \div n
        r1 == (r0 * 64) % n
        q2 == (r1 * LIMB) \div n
        r2 == (r1 * LIMB) % n
        q3 == (r2 * LIMB) \div n
        r3 == (r2 * LIMB) % n
    IN  IF c = n
        THEN [ m |-> << 2 ^ (MANTISSA - 1 - 2 * LIMB_BITS), 0, 0 >>,
               e |-> 1 - MANTISSA ]
        ELSE RoundToDouble(<< q1, q2, q3 >>, 0 - (z + 6 + 2 * LIMB_BITS),
                           r3 # 0)

\* the double x * 100
Times100(x) ==
    LET p3 == x.m[3] * 100
        p2 == (x.m[2] * 100) + (p3 \div LIMB)
        p1 == (x.m[1] * 100) + (p2 \div LIMB)
    IN  RoundToDouble(<< p1, p2 % LIMB, p3 % LIMB >>, x.e, FALSE)

\* Math.round(x), for x >= 1: the nearest integer, a tie going up
MathRound(x) ==
    LET top == (x.m[1] * LIMB) + x.m[2]
        s   == 0 - x.e - LIMB_BITS
    IN  (top \div (2 ^ s)) + ((top \div (2 ^ (s - 1))) % 2)

(***************************************************************************)
(* App.tsx: the component's state and runBatchUpdate (lines 75-123).       *)
(***************************************************************************)
VARIABLES
    data,            \* useState<AddressInfo[]>
    isUpdating,      \* useState(false)
    updateProgress,  \* useState(0)
    searchTerm,      \* useState('')
    saved,           \* localStorage[POLYGON_DASHBOARD_DATA]
    edits,           \* the remark edits and imports made so far
    run,             \* the locals of the runBatchUpdate invocation
    calls            \* the invocations of queryAddressFullData, by number

vars ==
    << chain, audit, clock, currentProvider, currentRpcUrl, lookups,
       data, isUpdating, updateProgress, searchTerm, saved, edits, run,
       calls >>

\* a JavaScript Map, as its entries in insertion order
mapHas(m, key) == \E j \in DOMAIN m : m[j].key = key

mapGet(m, key) == m[CHOOSE j \in DOMAIN m : m[j].key = key].val

\* a set that keeps the value a present key already has
mapSet_keepFirst(m, key, val) ==
    IF mapHas(m, key) THEN m ELSE Append(m, [ key |-> key, val |-> val ])

\* Map.prototype.set: a present key keeps its place and takes the new value
mapSet(m, key, val) ==
    IF mapHas(m, key)
    THEN [ j \in DOMAIN m |->
             IF m[j].key = key THEN [ key |-> key, val |-> val ] ELSE m[j] ]
    ELSE Append(m, [ key |-> key, val |-> val ])

mapKeys(m) == [ j \in DOMAIN m |-> m[j].key ]

\* lines 80-83: data.forEach(item => uniquePairs.set(...)) from row idx on;
\* the map after each set is computed before the next row is looked at
RECURSIVE uniquePairsFrom(_, _, _)
uniquePairsFrom(rows, idx, m) ==
    IF idx > Len(rows) THEN m
    ELSE CHOOSE result \in
             { uniquePairsFrom(rows, idx + 1, next) :
                 next \in { mapSet(m, toLowerCase(rows[idx].aAddress),
                                   rows[idx].derivedAddress) } } : TRUE

uniquePairsOf(rows) == uniquePairsFrom(rows, 1, <<>>)

\* the progress computed from i instead of i + 1
progressAfter_fromIndex(i, length) == (200 * i + length) \div (2 * length)

\* the number of addresses processed, not their share
progressAfter_count(i, length) == i + 1

\* line 97: Math.round(((i + 1) / length) * 100), i counted from 0; each
\* intermediate double is computed once and passed on as a value
progressAfter(i, length) ==
    CHOOSE p \in { MathRound(product) :
                     product \in { Times100(quotient) :
                                     quotient \in { Divide(i + 1, length) } } } :
        TRUE

\* an update that blanks the rows it has no result for
applyResults_blankMissing(prev, resultsMap, now) ==
    [ j \in DOMAIN prev |->
        IF mapHas(resultsMap, toLowerCase(prev[j].aAddress))
        THEN [ prev[j] EXCEPT
                 !.snap = mapGet(resultsMap, toLowerCase(prev[j].aAddress)),
                 !.lastUpdated = now ]
        ELSE [ prev[j] EXCEPT !.snap = NoSnapshot, !.lastUpdated = now ] ]

\* an update that adds the new values to those a row already has
applyResults_accumulate(prev, resultsMap, now) ==
    [ j \in DOMAIN prev |->
        IF mapHas(resultsMap, toLowerCase(prev[j].aAddress))
        THEN LET res == mapGet(resultsMap, toLowerCase(prev[j].aAddress))
             IN  [ prev[j] EXCEPT
                     !.snap = IF prev[j].lastUpdated = 0 THEN res
                              ELSE [ fld \in SnapshotFields |->
                                       prev[j].snap[fld] + res[fld] ],
                     !.lastUpdated = now ]
        ELSE prev[j] ]

\* an update made to the list the invocation captured when it started
applyResults_fromCaptured(prev, resultsMap, now) ==
    [ j \in DOMAIN run.pairs |->
        IF mapHas(resultsMap, toLowerCase(run.pairs[j].aAddress))
        THEN [ run.pairs[j] EXCEPT
                 !.snap = mapGet(resultsMap,
                                 toLowerCase(run.pairs[j].aAddress)),
                 !.lastUpdated = now ]
        ELSE run.pairs[j] ]

\* lines 99-115: prev.map(item => ...), now being Date.now()
applyResults(prev, resultsMap, now) ==
    [ j \in DOMAIN prev |->
        IF mapHas(resultsMap, toLowerCase(prev[j].aAddress))
        THEN [ prev[j] EXCEPT
                 !.snap = mapGet(resultsMap, toLowerCase(prev[j].aAddress)),
                 !.lastUpdated = now ]
        ELSE prev[j] ]

\* a catch block that records the failed address with an empty snapshot
resultsAfter_recordFailure(resultsMap, aAddr, q) ==
    mapSet(resultsMap, aAddr, q.result)

\* lines 91-96: try { resultsMap.set(aAddr, await ...) } catch { log }
resultsAfter(resultsMap, aAddr, q) ==
    IF q.stat = "ok" THEN mapSet(resultsMap, aAddr, q.result) ELSE resultsMap

\* The locals of the invocation of runBatchUpdate, and what the properties
\* need of its history: pairs is data as the invocation found it, queried
\* the address pairs it has queried, reported the progress values it has
\* set, previous the outcome of the invocations that returned before it.
IdleRun ==
    [ pc |-> "idle", pairs |-> <<>>, uniquePairs |-> <<>>, i |-> 0,
      resultsMap |-> <<>>, queried |-> <<>>, reported |-> <<>>,
      previous |-> <<>>, ignored |-> 0, overlap |-> FALSE ]

\* a guard that lets every invocation pass
alreadyUpdating_never(updating) == FALSE

\* line 76: if (isUpdating) return
alreadyUpdating(updating) == updating

\* lines 75-92: the click, up to the first await; with no address the loop
\* body never runs and the invocation ends at once
runBatchUpdate ==
    /\ run.pc = "idle"
    /\ ~alreadyUpdating(isUpdating)
    /\ LET uniquePairs == uniquePairsOf(data)
           uniqueAddresses == mapKeys(uniquePairs)
       IN  IF Len(uniqueAddresses) = 0
           THEN /\ run' = [ IdleRun EXCEPT !.pc = "done", !.pairs = data,
                                           !.reported = <<0>>,
                                           !.previous = run.previous ]
                /\ saved' = data
                /\ isUpdating' = FALSE
                /\ updateProgress' = 0
                /\ UNCHANGED << searchTerm, edits, chain, audit,
                                clock, currentProvider,
                                currentRpcUrl, lookups, data, calls >>
           ELSE LET aAddr == uniqueAddresses[1]
                    dAddr == mapGet(uniquePairs, aAddr)
                IN  /\ run' = [ IdleRun EXCEPT
                                  !.pc = "await", !.pairs = data,
                                  !.uniquePairs = uniquePairs,
                                  !.queried = << [ aAddr |-> aAddr,
                                                   dAddr |-> dAddr ] >>,
                                  !.reported = <<0>>,
                                  !.previous = run.previous ]
                    /\ calls' = [ calls EXCEPT
                                    ![1] = queryAddressFullData(aAddr, dAddr) ]
                    /\ lookup(DEFAULT_RPC)
                    /\ isUpdating' = TRUE
                    /\ updateProgress' = 0
                    /\ UNCHANGED << searchTerm, edits, chain, audit,
                                    clock, data, saved >>

\* lines 92-122: the await of line 92 resumes with the outcome q of
\* invocation k, the loop body ends, and the loop goes on to the next
\* address or the run ends
resumeRun(k, q) ==
    LET uniqueAddresses == mapKeys(run.uniquePairs)
        length == Len(uniqueAddresses)
        aAddr == uniqueAddresses[k]
        resultsMap == resultsAfter(run.resultsMap, aAddr, q)
        progress == progressAfter(run.i, length)
        newData == applyResults(data, resultsMap, clock)
    IN  /\ updateProgress' = progress
        /\ data' = newData
        /\ IF k < length
           THEN LET nextA == uniqueAddresses[k + 1]
                    nextD == mapGet(run.uniquePairs, nextA)
                IN  /\ run' = [ run EXCEPT
                                  !.i = k, !.resultsMap = resultsMap,
                                  !.queried = Append(@, [ aAddr |-> nextA,
                                                          dAddr |-> nextD ]),
                                  !.reported = Append(@, progress) ]
                    /\ calls' = [ calls EXCEPT
                                    ![k] = q,
                                    ![k + 1] = queryAddressFullData(nextA, nextD) ]
                    /\ lookup(DEFAULT_RPC)
                    /\ UNCHANGED << isUpdating, saved >>
           ELSE /\ run' = [ run EXCEPT
                              !.pc = "done", !.i = k, !.resultsMap = resultsMap,
                              !.reported = Append(@, progress) ]
                /\ calls' = [ calls EXCEPT ![k] = q ]
                /\ saved' = newData
                /\ isUpdating' = FALSE
                /\ UNCHANGED << currentProvider, currentRpcUrl, lookups >>

\* a loop without the catch of line 94: the error of a failed invocation
\* leaves runBatchUpdate, and nothing after the await runs
settled_errorEscapes(k, q1) ==
    LET q == resumeQuery(q1)
    IN  IF /\ calls[k].stat = "pending"
           /\ q.stat = "ok"
           /\ run.pc = "await"
           /\ run.i + 1 = k
        THEN resumeRun(k, q)
        ELSE /\ calls' = [ calls EXCEPT ![k] = q ]
             /\ UNCHANGED << currentProvider, currentRpcUrl, lookups, data,
                             isUpdating, updateProgress, saved, run >>

\* a sub-fetch of invocation k has settled and left it as q1: the
\* invocation returns or throws if Promise.all has settled, and its caller
\* resumes
settled(k, q1) ==
    LET q == resumeQuery(q1)
    IN  IF /\ calls[k].stat = "pending"
           /\ q.stat # "pending"
           /\ run.pc = "await"
           /\ run.i + 1 = k
        THEN resumeRun(k, q)
        ELSE /\ calls' = [ calls EXCEPT ![k] = q ]
             /\ UNCHANGED << currentProvider, currentRpcUrl, lookups, data,
                             isUpdating, updateProgress, saved, run >>

\* lines 75-78, for an invocation of runBatchUpdate while the loop of an
\* earlier invocation awaits: it returns at line 76 (ignored counts these
\* invocations); were it to pass line 76, it would set isUpdating and the
\* progress and start a loop of its own beside the one in flight (overlap)
runBatchUpdateAgain ==
    /\ run.pc = "await"
    /\ run.ignored < MaxIgnored
    /\ IF alreadyUpdating(isUpdating)
       THEN /\ run' = [ run EXCEPT !.ignored = @ + 1 ]
            /\ UNCHANGED << isUpdating, updateProgress >>
       ELSE /\ run' = [ run EXCEPT !.overlap = TRUE ]
            /\ isUpdating' = TRUE
            /\ updateProgress' = 0
    /\ UNCHANGED << searchTerm, edits, chain, audit,
                    clock, currentProvider, currentRpcUrl,
                    lookups, data, saved, calls >>

\* whether a request of invocation q failed at network level and the
\* failure was absorbed
Absorbed(q) == q.total.netErr \/ \E f \in Families : q.fetch[f].netErr

\* The invocation of runBatchUpdate has returned and its locals are gone;
\* what is still in flight of its queries no longer reaches the program.
\* The next invocation remembers the rows it left and how its queries
\* ended.
Return ==
    /\ run.pc = "done"
    /\ Len(run.previous) + 1 < MaxRuns
    /\ run' = [ IdleRun EXCEPT !.previous =
                  Append(run.previous,
                         [ data  |-> data,
                           calls |-> [ k \in 1..Len(run.queried) |->
                                         [ stat   |-> calls[k].stat,
                                           netErr |-> Absorbed(calls[k]) ] ] ]) ]
    /\ calls' = [ k \in DOMAIN calls |-> IdleQuery ]
    /\ UNCHANGED << searchTerm, edits, chain, audit,
                    clock, currentProvider, currentRpcUrl,
                    lookups, data, isUpdating, updateProgress, saved >>

\* time passes
Tick ==
    /\ clock < MaxClock
    /\ clock' = clock + 1
    /\ UNCHANGED << searchTerm, edits, chain, audit,
                    currentProvider, currentRpcUrl, lookups,
                    data, isUpdating, updateProgress, saved, run, calls >>

(***************************************************************************)
(* App.tsx: the search box, the table's remark cell and the import.        *)
(***************************************************************************)
\* String.prototype.includes
includes(s, t) ==
    \E start \in 0..(Len(s) - Len(t)) :
        SubSeq(s, start + 1, start + Len(t)) = t

\* lines 152-153: the filter's test of a row
matchesSearch(item, term) ==
    \/ includes(toLowerCase(item.remark), toLowerCase(term))
    \/ includes(toLowerCase(item.aAddress), toLowerCase(term))

\* lines 150-155: the rows the table shows, in order
filteredData(rows, term) ==
    SelectSeq(rows, LAMBDA item : matchesSearch(item, term))

\* lines 125-130, index counted from 0: the new list, set and saved
handleRemarkChange(index, remark) ==
    LET newData == [ data EXCEPT ![index + 1].remark = remark ]
    IN  /\ data' = newData
        /\ saved' = newData

\* what is recorded of a change of the list by the user: the search term,
\* the list before and after, what was saved, and where the run was
Edit(kind, idx, value) ==
    [ kind |-> kind, term |-> searchTerm, idx |-> idx, value |-> value,
      before |-> data, after |-> data', stored |-> saved',
      pc |-> run.pc, i |-> run.i ]

\* line 315: the search box changes
setSearchTerm(term) ==
    /\ searchTerm # term
    /\ searchTerm' = term
    /\ UNCHANGED << chain, audit, clock, currentProvider, currentRpcUrl,
                    lookups, data, isUpdating, updateProgress, saved, edits,
                    run, calls >>

\* lines 337-362: the remark cell of the row shown at position idx (from
\* 0) was clicked, value typed into it, and the input loses the focus
remarkBlur(idx, value) ==
    /\ Len(edits) < MaxEdits
    /\ idx < Len(filteredData(data, searchTerm))
    /\ handleRemarkChange(idx, value)
    /\ edits' = Append(edits, Edit("remark", idx, value))
    /\ UNCHANGED << chain, audit, clock, currentProvider, currentRpcUrl,
                    lookups, isUpdating, updateProgress, searchTerm, run,
                    calls >>

\* lines 132-148: a file that parses to the list items was read
handleImport(items) ==
    /\ Len(edits) < MaxEdits
    /\ data' = items
    /\ saved' = items
    /\ edits' = Append(edits, Edit("import", 0, <<>>))
    /\ UNCHANGED << chain, audit, clock, currentProvider, currentRpcUrl,
                    lookups, isUpdating, updateProgress, searchTerm, run,
                    calls >>

(***************************************************************************)
(* The network: every request in flight settles with its answer or with a  *)
(* network error.                                                          *)
(***************************************************************************)
\* line 149: multi.tryAggregate.staticCall(false, simpleCalls) settles
SettleSimple(k) ==
    /\ calls[k].simple.pc = "wait"
    /\ \E ok \in BOOLEAN :
         LET q == calls[k]
             results == tryAggregate(chain, simpleCalls(q.aAddress, q.derivedAddress))
         IN  settled(k, [ q EXCEPT !.simple =
                             IF ok THEN [ pc |-> "ok", results |-> results ]
                                   ELSE [ pc |-> "err", results |-> <<>> ] ])
    /\ UNCHANGED << searchTerm, edits, chain, audit, clock >>

\* line 49: provider.call settles
SettleTotal(k) ==
    /\ calls[k].total.pc = "wait"
    /\ \E ok \in BOOLEAN :
         LET q == calls[k]
         IN  settled(k, [ q EXCEPT !.total =
                             [ @ EXCEPT
                                 !.pc = "done",
                                 !.value = queryTotalStaking(chain, q.aAddress, ok),
                                 !.netErr = audit /\ ~ok ] ])
    /\ UNCHANGED << searchTerm, edits, chain, audit, clock >>

\* line 88: the count batch settles
SettleCount(k, f) ==
    /\ calls[k].fetch[f].pc = "count"
    /\ \E ok \in BOOLEAN :
         LET q == calls[k]
         IN  settled(k, [ q EXCEPT !.fetch[f] = countSettled(chain, @, ok) ])
    /\ UNCHANGED << searchTerm, edits, chain, audit, clock >>

\* line 109: an item chunk settles
SettleChunk(k, f) ==
    /\ calls[k].fetch[f].pc = "chunk"
    /\ \E ok \in BOOLEAN :
         LET q == calls[k]
         IN  settled(k, [ q EXCEPT !.fetch[f] = chunkSettled(chain, @, ok) ])
    /\ UNCHANGED << searchTerm, edits, chain, audit, clock >>

(***************************************************************************)
(* Spec: one batch run over an address list.                               *)
(***************************************************************************)
\* the invocations of queryAddressFullData
QueryIds == DOMAIN calls

RECURSIVE ListsUpTo(_, _)
ListsUpTo(S, n) ==
    IF n = 0 THEN { <<>> }
    ELSE LET shorter == ListsUpTo(S, n - 1)
         IN  shorter \cup { Append(l, x) : l \in { m \in shorter : Len(m) = n - 1 }, x \in S }

\* the rows a list is made of: two spellings of one account with different
\* derived addresses, and another account with either derived address
Rows ==
    { AddressInfo(<<"0", "x", "A">>, <<"0", "x", "D">>),
      AddressInfo(<<"0", "x", "a">>, <<"0", "x", "e">>),
      AddressInfo(<<"0", "x", "b">>, <<"0", "x", "D">>),
      AddressInfo(<<"0", "x", "b">>, <<"0", "x", "e">>) }

\* a chain on which the account holds one stake
StakeChain ==
    [ NominalChain EXCEPT !.count["stake"][1] = Length(1) ]

RunChains == { NominalChain, StakeChain }

\* the module of part_000 as loaded, and the clock at its first reading
Cold ==
    /\ clock = 1
    /\ currentProvider = NoProvider
    /\ currentRpcUrl = ""
    /\ lookups = <<>>

\* the component as mounted: no search term, and nothing edited yet
Mounted ==
    /\ searchTerm = <<>>
    /\ edits = <<>>

Init ==
    /\ chain \in RunChains
    /\ audit = FALSE
    /\ Cold
    /\ Mounted
    /\ data \in ListsUpTo(Rows, MaxRows)
    /\ isUpdating = FALSE
    /\ updateProgress = 0
    /\ saved = data
    /\ run = IdleRun
    /\ calls = [ k \in 1..MaxRows |-> IdleQuery ]

Next ==
    \/ runBatchUpdate
    \/ \E k \in QueryIds : SettleSimple(k)
    \/ \E k \in QueryIds : SettleTotal(k)
    \/ \E k \in QueryIds, f \in Families : SettleCount(k, f)
    \/ \E k \in QueryIds, f \in Families : SettleChunk(k, f)

Spec == Init /\ [][Next]_vars

(***************************************************************************)
(* SpecLive: Spec with a network that answers.  While a request is in      *)
(* flight, some request eventually settles, with an answer or an error.    *)
(***************************************************************************)
Settle ==
    \/ \E k \in QueryIds : SettleSimple(k)
    \/ \E k \in QueryIds : SettleTotal(k)
    \/ \E k \in QueryIds, f \in Families : SettleCount(k, f)
    \/ \E k \in QueryIds, f \in Families : SettleChunk(k, f)

\* the runs on the chain on which requests of every kind are made
InitLive == Init /\ chain = StakeChain

SpecLive == InitLive /\ [][Next]_vars /\ WF_vars(Settle)

(***************************************************************************)
(* SpecClicks: Spec with invocations of runBatchUpdate while a run is in   *)
(* flight.                                                                 *)
(***************************************************************************)
NextClicks == Next \/ runBatchUpdateAgain

SpecClicks == Init /\ [][NextClicks]_vars

(***************************************************************************)
(* SpecTable: the table over every list, with the search box and remark    *)
(* edits.  SpecEdit: a run over a list, with remark edits and imports at   *)
(* any moment of it.                                                       *)
(***************************************************************************)
SearchTerms == { <<>>, <<"A">>, <<"b">>, <<"z">> }

Remarks == { <<"a">>, <<"Z">> }

InitTable ==
    /\ chain = NominalChain
    /\ audit = FALSE
    /\ Cold
    /\ Mounted
    /\ data \in ListsUpTo(Rows, MaxRows)
    /\ isUpdating = FALSE
    /\ updateProgress = 0
    /\ saved = data
    /\ run = IdleRun
    /\ calls = [ k \in 1..MaxRows |-> IdleQuery ]

NextTable ==
    \/ \E term \in SearchTerms : setSearchTerm(term)
    \/ \E idx \in 0..(MaxRows - 1), value \in Remarks : remarkBlur(idx, value)

SpecTable == InitTable /\ [][NextTable]_vars

\* a row of an imported file
ImportedRow(a, d) == [ AddressInfo(a, d) EXCEPT !.log = "imported" ]

ImportedLists ==
    { <<>>,
      << ImportedRow(<<"0", "x", "b">>, <<"0", "x", "e">>),
         ImportedRow(<<"0", "x", "A">>, <<"0", "x", "D">>) >> }

EditedLists ==
    { << AddressInfo(<<"0", "x", "A">>, <<"0", "x", "D">>),
         AddressInfo(<<"0", "x", "b">>, <<"0", "x", "e">>) >>,
      << AddressInfo(<<"0", "x", "a">>, <<"0", "x", "e">>),
         AddressInfo(<<"0", "x", "A">>, <<"0", "x", "D">>) >> }

InitEdit ==
    /\ chain = NominalChain
    /\ audit = FALSE
    /\ Cold
    /\ Mounted
    /\ data \in EditedLists
    /\ isUpdating = FALSE
    /\ updateProgress = 0
    /\ saved = data
    /\ run = IdleRun
    /\ calls = [ k \in 1..MaxRows |-> IdleQuery ]

\* the account holds no stake and no bond on NominalChain: no chunk of item
\* calls is ever in flight
NextEdit ==
    \/ runBatchUpdate
    \/ \E k \in QueryIds : SettleSimple(k)
    \/ \E k \in QueryIds : SettleTotal(k)
    \/ \E k \in QueryIds, f \in Families : SettleCount(k, f)
    \/ \E idx \in 0..(MaxRows - 1), value \in Remarks : remarkBlur(idx, value)
    \/ \E items \in ImportedLists : handleImport(items)

SpecEdit == InitEdit /\ [][NextEdit]_vars

(***************************************************************************)
(* SpecSnap: one invocation of queryAddressFullData, on chains that differ *)
(* from the nominal one in the simple contracts, in the total-staking      *)
(* contract, or in one collection family.                                  *)
(***************************************************************************)
SimpleTargets == { "turbine", "zhuwang", "lgns", "slgns" }

\* an account with no position anywhere
NoPositionChain ==
    [ NominalChain EXCEPT !.simple = [ t \in SimpleTargets |-> "zero" ],
                          !.total = "zero" ]

SimpleChains ==
    { [ NominalChain EXCEPT !.simple[t] = kind ] :
        t \in SimpleTargets, kind \in SimpleKinds }

TotalChains == { [ NominalChain EXCEPT !.total = kind ] : kind \in TotalKinds }

SmallCounts == { CountReverts, CountEmpty, Length(0), Length(1) }

SmallOdds == { NoOdd } \cup [ c : {1}, i : {0}, kind : OddKinds ]

SmallFamilyChains ==
    { [ NominalChain EXCEPT !.count[f] = cnt, !.odd[f] = odd ] :
        f \in Families, cnt \in [ 1..NumContracts -> SmallCounts ],
        odd \in SmallOdds }

\* a chain on which a call of each batch reverts: the turbine call, the
\* count call of one contract of each family, and the only stake item
RevertingChain ==
    [ NominalChain EXCEPT
        !.simple["turbine"] = "rev",
        !.count["stake"] = [ c \in 1..NumContracts |->
                               IF c = 1 THEN Length(1) ELSE CountReverts ],
        !.odd["stake"] = [ c |-> 1, i |-> 0, kind |-> "rev" ],
        !.count["bond"] = [ c \in 1..NumContracts |->
                              IF c = 1 THEN CountReverts ELSE Length(1) ] ]

\* a chain on which each family has an item that its extraction rule
\* filters out, in the first contract, and an item that it keeps
FilteredChain ==
    [ NominalChain EXCEPT
        !.count = [ f \in Families |-> [ c \in 1..NumContracts |-> Length(1) ] ],
        !.odd = [ f \in Families |-> [ c |-> 1, i |-> 0, kind |-> "filtered" ] ] ]

\* the chains on which any of the four simple calls revert
MixedSimpleChains ==
    { [ NominalChain EXCEPT !.simple = kinds ] :
        kinds \in [ SimpleTargets -> { "ok", "rev" } ] }

SnapChains ==
    { NoPositionChain, RevertingChain, FilteredChain }
      \cup SimpleChains \cup MixedSimpleChains \cup TotalChains
      \cup SmallFamilyChains

\* the address pairs a query is invoked with
SnapPairs ==
    { << <<"0", "x", "a">>, <<"0", "x", "D">> >>,
      << <<"0", "x", "b">>, <<"0", "x", "e">> >> }

InitSnap ==
    /\ chain \in SnapChains
    /\ audit = TRUE
    /\ Cold
    /\ Mounted
    /\ data = <<>>
    /\ isUpdating = FALSE
    /\ updateProgress = 0
    /\ saved = <<>>
    /\ run = IdleRun
    /\ \E p \in SnapPairs :
         calls = [ k \in 1..MaxRows |->
                     IF k = 1 THEN queryAddressFullData(p[1], p[2])
                     ELSE IdleQuery ]

NextSnap ==
    \/ \E k \in QueryIds : SettleSimple(k)
    \/ \E k \in QueryIds : SettleTotal(k)
    \/ \E k \in QueryIds, f \in Families : SettleCount(k, f)
    \/ \E k \in QueryIds, f \in Families : SettleChunk(k, f)

SpecSnap == InitSnap /\ [][NextSnap]_vars

(***************************************************************************)
(* SpecFetch: one invocation of batchQueryDynamicDetails, on collections   *)
(* long enough to need several chunks.                                     *)
(***************************************************************************)
FetchChains(f) ==
    { [ NominalChain EXCEPT !.count[f] = cnt, !.odd[f] = odd ] :
        cnt \in [ 1..NumContracts -> CountKinds ], odd \in Odds }

InitFetch ==
    /\ audit = TRUE
    /\ Cold
    /\ Mounted
    /\ data = <<>>
    /\ isUpdating = FALSE
    /\ updateProgress = 0
    /\ saved = <<>>
    /\ run = IdleRun
    /\ \E f \in Families :
         /\ chain \in FetchChains(f)
         /\ calls = [ k \in 1..MaxRows |->
                        IF k = 1
                        THEN [ IdleQuery EXCEPT !.fetch[f] =
                                 batchQueryDynamicDetails(f, <<"0", "x", "a">>) ]
                        ELSE IdleQuery ]

NextFetch ==
    \/ \E k \in QueryIds, f \in Families : SettleCount(k, f)
    \/ \E k \in QueryIds, f \in Families : SettleChunk(k, f)

SpecFetch == InitFetch /\ [][NextFetch]_vars

(***************************************************************************)
(* SpecProvider: calls of getProvider that follow one another, with URLs   *)
(* of every kind, each recorded with the provider it returned.             *)
(***************************************************************************)
InitProvider ==
    /\ chain = NominalChain
    /\ audit = TRUE
    /\ Cold
    /\ Mounted
    /\ data = <<>>
    /\ isUpdating = FALSE
    /\ updateProgress = 0
    /\ saved = <<>>
    /\ run = IdleRun
    /\ calls = [ k \in 1..MaxRows |-> IdleQuery ]

\* getProvider(rpcUrl) is called
GetProvider ==
    /\ Len(lookups) < MaxLookups
    /\ \E rpcUrl \in Urls : lookup(rpcUrl)
    /\ UNCHANGED << searchTerm, edits, chain, audit,
                    clock, data, isUpdating, updateProgress,
                    saved, run, calls >>

SpecProvider == InitProvider /\ [][GetProvider]_vars

(***************************************************************************)
(* SpecPayload: one invocation of queryTotalStaking for each address of    *)
(* HexDigits hexadecimal digits, in every spelling.                        *)
(***************************************************************************)
PayloadChars == { "0", "9", "a", "A", "b", "B", "f", "F" }

PayloadAddresses ==
    { << "0", "x" >> \o digits : digits \in [ 1..HexDigits -> PayloadChars ] }

InitPayload ==
    /\ chain = NominalChain
    /\ audit = TRUE
    /\ Cold
    /\ Mounted
    /\ data = <<>>
    /\ isUpdating = FALSE
    /\ updateProgress = 0
    /\ saved = <<>>
    /\ run = IdleRun
    /\ \E address \in PayloadAddresses :
         calls = [ k \in 1..MaxRows |->
                     IF k = 1
                     THEN [ IdleQuery EXCEPT
                              !.aAddress = address,
                              !.total = [ @ EXCEPT
                                            !.pc = "wait",
                                            !.data = callData(address) ] ]
                     ELSE IdleQuery ]

NextPayload == \E k \in QueryIds : SettleTotal(k)

SpecPayload == InitPayload /\ [][NextPayload]_vars

(***************************************************************************)
(* SpecRuns: invocations of runBatchUpdate that follow one another on the  *)
(* same chain, while time passes.  The lists are of two accounts, or of    *)
(* one account that holds a stake, and then the failures of the requests   *)
(* are recorded.                                                           *)
(***************************************************************************)
RunRows ==
    { AddressInfo(<<"0", "x", "A">>, <<"0", "x", "D">>),
      AddressInfo(<<"0", "x", "b">>, <<"0", "x", "e">>) }

\* two spellings of one account
SameAccountRows ==
    { AddressInfo(<<"0", "x", "A">>, <<"0", "x", "D">>),
      AddressInfo(<<"0", "x", "a">>, <<"0", "x", "e">>) }

InitRuns ==
    /\ \/ /\ chain = NominalChain
          /\ audit = FALSE
          /\ data \in ListsUpTo(RunRows, MaxRows)
       \/ /\ chain = StakeChain
          /\ audit = TRUE
          /\ data \in ListsUpTo(SameAccountRows, MaxRows) \ { <<>> }
    /\ Cold
    /\ Mounted
    /\ isUpdating = FALSE
    /\ updateProgress = 0
    /\ saved = data
    /\ run = IdleRun
    /\ calls = [ k \in 1..MaxRows |-> IdleQuery ]

NextRuns ==
    \/ Next
    \/ Return
    \/ Tick

SpecRuns == InitRuns /\ [][NextRuns]_vars

(***************************************************************************)
(* SpecProgress: runs over long lists of distinct addresses, as far as the *)
(* answers and failures of the simple batches take them.                   *)
(***************************************************************************)
HexChars ==
    << "0", "1", "2", "3", "4", "5", "6", "7", "8", "9",
       "a", "b", "c", "d", "e", "f" >>

\* the j-th of the distinct addresses of a long list
NthAddress(j) ==
    << "0", "x", HexChars[(j \div 16) + 1], HexChars[(j % 16) + 1] >>

InitProgress ==
    /\ chain = NominalChain
    /\ audit = FALSE
    /\ Cold
    /\ Mounted
    /\ \E n \in 1..MaxAddresses :
         /\ data = [ j \in 1..n |-> AddressInfo(NthAddress(j), NthAddress(j)) ]
         /\ calls = [ k \in 1..n |-> IdleQuery ]
    /\ isUpdating = FALSE
    /\ updateProgress = 0
    /\ saved = data
    /\ run = IdleRun

NextProgress ==
    \/ runBatchUpdate
    \/ \E k \in QueryIds : SettleSimple(k)

SpecProgress == InitProgress /\ [][NextProgress]_vars

(***************************************************************************)
(* Properties of the batch run (Spec).                                     *)
(***************************************************************************)
\* the rows of the list a run started from that name the account of key
RowsOf(rows, key) ==
    { j \in DOMAIN rows : toLowerCase(rows[j].aAddress) = key }

FirstRowOf(rows, key) ==
    CHOOSE j \in RowsOf(rows, key) : \A h \in RowsOf(rows, key) : j <= h

LastRowOf(rows, key) ==
    CHOOSE j \in RowsOf(rows, key) : \A h \in RowsOf(rows, key) : j >= h

\* the lower-cased primary addresses of rows, each once, in the order of
\* their first occurrence
RECURSIVE DistinctKeys(_, _, _)
DistinctKeys(rows, idx, acc) ==
    IF idx > Len(rows) THEN acc
    ELSE LET key == toLowerCase(rows[idx].aAddress)
         IN  CHOOSE result \in
                 { DistinctKeys(rows, idx + 1, next) :
                     next \in { IF \E j \in DOMAIN acc : acc[j] = key
                                THEN acc ELSE Append(acc, key) } } : TRUE

DedupKeys == DistinctKeys(run.pairs, 1, <<>>)

QueriedOnce ==
    \A j, h \in DOMAIN run.queried :
        run.queried[j].aAddr = run.queried[h].aAddr => j = h

\* an account that occurs twice in the list, with different derived
\* addresses, has been queried
DuplicateQueried ==
    \E j \in DOMAIN run.queried :
        LET key == run.queried[j].aAddr
        IN  /\ Cardinality(RowsOf(run.pairs, key)) > 1
            /\ run.pairs[FirstRowOf(run.pairs, key)].derivedAddress
                 # run.pairs[LastRowOf(run.pairs, key)].derivedAddress

\* C1 as claimed: every queried address is queried once, with the derived
\* address of the FIRST row of the list that names it.
C1_FirstOccurrenceWins ==
    /\ QueriedOnce
    /\ \A j \in DOMAIN run.queried :
         run.queried[j].dAddr =
           run.pairs[FirstRowOf(run.pairs, run.queried[j].aAddr)].derivedAddress

\* C1 as amended: every queried address is queried once per run, with the
\* derived address of the LAST row of the list that names it (in any letter
\* case).
C1_LastOccurrenceWins ==
    /\ QueriedOnce
    /\ \A j \in DOMAIN run.queried :
         run.queried[j].dAddr =
           run.pairs[LastRowOf(run.pairs, run.queried[j].aAddr)].derivedAddress

C1_Witness == run.pc = "done" /\ DuplicateQueried

\* C2: per-address failure isolation.  When a run over n >= 1 deduplicated
\* addresses has ended, whichever of them failed, the snapshot query was
\* invoked for every address in order, the result map holds the snapshot
\* of every address that succeeded, and the last progress reported is 100.
C2_FailureIsolation ==
    run.pc = "done" /\ Len(DedupKeys) >= 1 =>
        /\ [ j \in DOMAIN run.queried |-> run.queried[j].aAddr ] = DedupKeys
        /\ \A k \in DOMAIN DedupKeys :
             /\ calls[k].stat \in { "ok", "failed" }
             /\ calls[k].aAddress = DedupKeys[k]
             /\ calls[k].stat = "ok" =>
                  /\ mapHas(run.resultsMap, DedupKeys[k])
                  /\ mapGet(run.resultsMap, DedupKeys[k]) = calls[k].result
        /\ updateProgress = 100
        /\ run.reported[Len(run.reported)] = 100

\* a run of two addresses has ended, the first failed, the second succeeded
C2_Witness ==
    /\ run.pc = "done"
    /\ Len(DedupKeys) = 2
    /\ calls[1].stat = "failed"
    /\ calls[2].stat = "ok"

\* C3 as claimed: at completion the result map has an entry for every
\* deduplicated address, the failed ones included.
C3_EveryAddressHasEntry ==
    run.pc = "done" =>
        \A k \in DOMAIN DedupKeys : mapHas(run.resultsMap, DedupKeys[k])

\* C3 as amended: at completion the result map has exactly one entry for
\* every deduplicated address whose snapshot construction succeeded, and
\* no entry for an address whose snapshot construction failed.
C3_EntriesAreTheSucceeded ==
    run.pc = "done" =>
        /\ \A j, h \in DOMAIN run.resultsMap :
             run.resultsMap[j].key = run.resultsMap[h].key => j = h
        /\ \A j \in DOMAIN run.resultsMap :
             \E k \in DOMAIN DedupKeys : run.resultsMap[j].key = DedupKeys[k]
        /\ \A k \in DOMAIN DedupKeys :
             mapHas(run.resultsMap, DedupKeys[k]) <=> calls[k].stat = "ok"

\* a run of two addresses has ended, the first succeeded, the second failed
C3_Witness ==
    /\ run.pc = "done"
    /\ Len(DedupKeys) = 2
    /\ calls[1].stat = "ok"
    /\ calls[2].stat = "failed"

\* C5 as claimed: at every moment all the requests in flight belong to one
\* invocation of queryAddressFullData, that is, to one address.
C5_OneAddressAtATime ==
    Cardinality({ k \in QueryIds : InFlight(calls[k]) # {} }) <= 1

(***************************************************************************)
(* Properties of one snapshot query (SpecSnap).                            *)
(***************************************************************************)
Returned(q) == q.stat \in { "ok", "failed" }

\* C4 as claimed: an invocation that has returned or thrown has none of its
\* four sub-fetches in flight.
C4_CompletesAfterAllSettle ==
    \A k \in QueryIds : Returned(calls[k]) => InFlight(calls[k]) = {}

\* a simple-balance outcome that flags success and carries no bytes
EmptyOutcome(res) == res.success /\ Len(res.returnData) = 0

\* the field of the snapshot that simple outcome j feeds (lines 175-178)
SimpleFieldOf(j) ==
    CASE j = 1 -> "turbineBalance"
      [] j = 2 -> "zhuwangReward"
      [] j = 3 -> "lgnsBalance"
      [] OTHER -> "slgnsBalance"

\* the field of the snapshot that a collection family feeds (lines 173-174)
FamilyFieldOf(f) ==
    IF f = "stake" THEN "airdropEnergyStaking" ELSE "bondStaking"

\* C6 as claimed: once a multicall round trip of an invocation has failed
\* at network level (the simple batch, a count batch or an item chunk), the
\* invocation does not return a snapshot.
C6_NetworkFailureAborts ==
    \A k \in QueryIds :
        (calls[k].simple.pc = "err" \/ \E f \in Families : calls[k].fetch[f].netErr)
          => calls[k].stat # "ok"

\* C6 as amended: a network failure of the simple batch makes the
\* invocation throw; a network failure of a count batch or of an item chunk
\* does not: when the simple batch was answered with outcomes that decode,
\* the invocation returns, once all four sub-fetches have settled, a
\* snapshot whose collection fields are the totals the fetches had reached
\* (0 when it was the count batch that failed).
C6_OnlySimpleFailureAborts ==
    \A k \in QueryIds :
        LET q == calls[k]
        IN  /\ q.simple.pc = "err" => q.stat = "failed"
            /\ ( /\ q.simple.pc = "ok"
                 /\ \A j \in DOMAIN q.simple.results :
                      ~EmptyOutcome(q.simple.results[j])
                 /\ InFlight(q) = {} )
                 => /\ q.stat = "ok"
                    /\ \A f \in Families :
                         /\ q.result[FamilyFieldOf(f)] = q.fetch[f].total
                         /\ (q.fetch[f].netErr /\ q.fetch[f].trips = <<>>)
                              => q.result[FamilyFieldOf(f)] = 0

\* a snapshot was returned although the item chunk of one family and the
\* count batch of the other failed at network level
C6_Witness ==
    \E k \in QueryIds :
        /\ calls[k].stat = "ok"
        /\ \E f, g \in Families :
             /\ calls[k].fetch[f].netErr
             /\ calls[k].fetch[f].trips # <<>>
             /\ calls[k].fetch[g].netErr
             /\ calls[k].fetch[g].trips = <<>>

\* C7 as claimed: once the simple batch is answered and the four
\* sub-fetches have settled, a snapshot is returned; its seven fields are
\* non-negative integers, and each simple field whose outcome has success =
\* false or carries no bytes is 0.
C7_ZeroDefault ==
    \A k \in QueryIds :
        LET q == calls[k]
        IN  (q.simple.pc = "ok" /\ InFlight(q) = {}) =>
              /\ q.stat = "ok"
              /\ \A fld \in SnapshotFields : q.result[fld] >= 0
              /\ \A j \in DOMAIN q.simple.results :
                   (~q.simple.results[j].success
                      \/ Len(q.simple.results[j].returnData) = 0)
                     => q.result[SimpleFieldOf(j)] = 0

(***************************************************************************)
(* Properties of one collection fetch (SpecFetch).                         *)
(***************************************************************************)
\* what item call contributes on the chain: the principal of a stake that
\* exists, the payout of a bond that has an owner, and nothing when it
\* reverts, does not decode or is filtered out
Contribution(call) ==
    LET res == ItemAnswer(chain, call)
    IN  IF ~res.success \/ Len(res.returnData) < 2 THEN 0
        ELSE IF call.target[1] = "stake"
             THEN (IF res.returnData[2] = TRUE THEN res.returnData[1] ELSE 0)
             ELSE (IF res.returnData[2] = ZeroAddress THEN 0 ELSE res.returnData[1])

\* the contributions of item calls lo .. hi
RECURSIVE SumRange(_, _, _)
SumRange(itemCalls, lo, hi) ==
    IF lo > hi THEN 0
    ELSE IF lo = hi THEN Contribution(itemCalls[lo])
    ELSE LET mid == (lo + hi) \div 2
         IN  SumRange(itemCalls, lo, mid) + SumRange(itemCalls, mid + 1, hi)

\* the contributions of the first n item calls
SumOf(itemCalls, n) == SumRange(itemCalls, 1, n)

\* the item calls of the contracts from c on whose count call reports a
\* length: indexes 0 .. n-1 of each, in contract order
RECURSIVE ItemsFrom(_, _, _)
ItemsFrom(f, address, c) ==
    IF c > NumContracts THEN <<>>
    ELSE (IF chain.count[f][c].kind = "len"
          THEN [ n \in 1..chain.count[f][c].n |->
                   Call(<<f, c>>, itemMethod(f), address, n - 1) ]
          ELSE <<>>) \o ItemsFrom(f, address, c + 1)

Fetches == { calls[k].fetch[f] : k \in QueryIds, f \in Families }

CeilDiv(n, d) == (n + d - 1) \div d

\* C8 as claimed: a fetch that met no network error returns the sum of the
\* contributions of all its item calls, an item that reverts or does not
\* decode counting for 0.
C8_FailedItemIsSkipped ==
    \A fr \in Fetches :
        (fr.pc = "done" /\ ~fr.netErr) =>
            fr.total = SumOf(fr.itemCalls, Len(fr.itemCalls))

\* C9: a contract whose count call has success = false gets no item call
\* and adds nothing, and the contracts whose count call succeeded are
\* still enumerated and summed: a fetch that met no network error and no
\* decode error returns the sum over the items of exactly those contracts.
C9_FailedCountIsZero ==
    \A fr \in Fetches :
        /\ \A n \in DOMAIN fr.itemCalls :
             chain.count[fr.f][fr.itemCalls[n].target[2]].kind # "rev"
        /\ (fr.pc \in { "chunk", "done" } /\ ~fr.netErr /\ ~fr.threw) =>
             LET expected == ItemsFrom(fr.f, fr.address, 1)
             IN  /\ fr.itemCalls = expected
                 /\ fr.pc = "done" => fr.total = SumOf(expected, Len(expected))

\* the count call of the first contract failed although the contract holds
\* an item, and the items of a later contract made the total
C9_Witness ==
    \E fr \in Fetches :
        /\ fr.pc = "done" /\ ~fr.netErr /\ ~fr.threw
        /\ chain.count[fr.f][1].kind = "rev"
        /\ chain.count[fr.f][1].n > 0
        /\ fr.total > 0

\* C10 as claimed: a fetch of n >= 1 item calls that has returned has
\* issued exactly ceil(n/50) item round trips.
C10_ExactlyCeilTrips ==
    \A fr \in Fetches :
        (fr.pc = "done" /\ Len(fr.itemCalls) >= 1) =>
            Len(fr.trips) = CeilDiv(Len(fr.itemCalls), 50)

\* C10 as amended: the item round trips are issued one after the other,
\* the k-th carrying the item calls 50(k-1)+1 .. min(50k, n) in enqueue
\* order, at most ceil(n/50) of them; a network error or a successful item
\* that does not decode ends the fetch, otherwise exactly ceil(n/50) are
\* issued and the total is the sum of the contributions of all items.
C10_Chunking ==
    \A fr \in Fetches :
        LET n == Len(fr.itemCalls)
        IN  /\ Len(fr.trips) <= CeilDiv(n, 50)
            /\ \A t \in DOMAIN fr.trips :
                 /\ Len(fr.trips[t]) <= 50
                 /\ fr.trips[t] =
                      SubSeq(fr.itemCalls, 50 * (t - 1) + 1, Min(50 * t, n))
            /\ fr.pc = "chunk" =>
                 /\ fr.i = 50 * (Len(fr.trips) - 1)
                 /\ fr.total = SumOf(fr.itemCalls, fr.i)
            /\ (fr.pc = "done" /\ n >= 1 /\ ~fr.netErr /\ ~fr.threw) =>
                 /\ Len(fr.trips) = CeilDiv(n, 50)
                 /\ fr.total = SumOf(fr.itemCalls, n)

\* 120 item calls went out in chunks of 50, 50 and 20
C10_Witness ==
    \E fr \in Fetches :
        /\ fr.pc = "done"
        /\ Len(fr.itemCalls) = 120
        /\ [ t \in DOMAIN fr.trips |-> Len(fr.trips[t]) ] = <<50, 50, 20>>
        /\ fr.total = SumOf(fr.itemCalls, 120)
        /\ fr.total > 0

\* no contract of family f reports a positive length: each count call
\* decodes to 0 or fails
NothingToFetch(f) ==
    \A c \in 1..NumContracts : chain.count[f][c] \in { Length(0), CountReverts }

\* C11: when the decoded count is 0 for every contract, or a count call
\* fails, the fetch ends with the count round trip: it returns 0, has
\* enqueued no item call and has issued no item round trip.
C11_NoItemRoundTrip ==
    \A fr \in Fetches :
        /\ fr.pc = "count" => fr.trips = <<>>
        /\ (fr.pc \in { "chunk", "done" } /\ NothingToFetch(fr.f)) =>
             /\ fr.pc = "done"
             /\ fr.total = 0
             /\ fr.itemCalls = <<>>
             /\ fr.trips = <<>>

\* the count batch was answered, one contract reporting 0 and another
\* failing, and the fetch has returned
C11_Witness ==
    \E fr \in Fetches :
        /\ fr.pc = "done" /\ ~fr.netErr
        /\ NothingToFetch(fr.f)
        /\ \E c \in 1..NumContracts : chain.count[fr.f][c] = Length(0)
        /\ \E c \in 1..NumContracts : chain.count[fr.f][c] = CountReverts

(***************************************************************************)
(* Properties of queryTotalStaking (SpecSnap).                             *)
(***************************************************************************)
\* C12: queryTotalStaking never fails its caller.  Once provider.call has
\* settled it has returned a value: the second sub-result when the call was
\* answered with at least two sub-results of which the second succeeded,
\* and 0 for a network error, an empty answer, an answer that does not
\* decode, a single sub-result or a failed second sub-result.  An
\* invocation of queryAddressFullData that throws does so because of its
\* simple batch, and one that returns carries that value as totalStaking.
C12_TotalNeverFails ==
    \A k \in QueryIds :
        LET q == calls[k]
        IN  /\ q.total.pc = "done" =>
                 q.total.value =
                   IF ~q.total.netErr /\ chain.total = "ok"
                   THEN 50 + AccountNo(q.aAddress)
                   ELSE 0
            /\ q.stat = "failed" =>
                 \/ q.simple.pc = "err"
                 \/ \E j \in DOMAIN q.simple.results :
                      EmptyOutcome(q.simple.results[j])
            /\ q.stat = "ok" => q.result.totalStaking = q.total.value

\* provider.call failed at network level on a chain that would have
\* answered with a total, and the invocation returned a snapshot whose
\* totalStaking is 0
C12_Witness ==
    \E k \in QueryIds :
        /\ calls[k].stat = "ok"
        /\ calls[k].total.netErr
        /\ chain.total = "ok"
        /\ calls[k].result.totalStaking = 0

(***************************************************************************)
(* Properties of runs that follow one another (SpecRuns).                  *)
(***************************************************************************)
\* the query of the invocation in progress that row j of its list belongs to
QueryOfRow(j) ==
    CHOOSE k \in DOMAIN DedupKeys :
        DedupKeys[k] = toLowerCase(run.pairs[j].aAddress)

\* C13: during and after a run, a row whose address failed in the run, or
\* has not been processed yet, is exactly as the run found it, its seven
\* snapshot values and lastUpdated included; a row whose address succeeded
\* carries the snapshot the query returned.
C13_FailedRowsKeepSnapshot ==
    run.pc \in { "await", "done" } =>
        /\ DOMAIN data = DOMAIN run.pairs
        /\ \A j \in DOMAIN data :
             LET k == QueryOfRow(j)
             IN  IF k <= run.i /\ calls[k].stat = "ok"
                 THEN /\ data[j].snap = calls[k].result
                      /\ data[j].lastUpdated >= run.pairs[j].lastUpdated
                      /\ data[j].lastUpdated > 0
                 ELSE data[j] = run.pairs[j]

\* a second run has ended in which one address failed, whose row keeps the
\* snapshot and the time of the first run, and another address succeeded
\* at a later time
C13_Witness ==
    /\ run.pc = "done"
    /\ Len(run.previous) = 1
    /\ \E j, h \in DOMAIN data :
         /\ calls[QueryOfRow(j)].stat = "failed"
         /\ data[j].snap # NoSnapshot
         /\ data[j].lastUpdated > 0
         /\ calls[QueryOfRow(h)].stat = "ok"
         /\ data[h].lastUpdated > data[j].lastUpdated

\* the run that has ended and the run before it queried every address
\* without a failure
NoAddressFailed ==
    /\ \A k \in DOMAIN run.queried : calls[k].stat = "ok"
    /\ \A k \in DOMAIN run.previous[Len(run.previous)].calls :
         run.previous[Len(run.previous)].calls[k].stat = "ok"

\* no request of the two runs failed at network level
NoRequestFailed ==
    /\ audit
    /\ \A k \in DOMAIN run.queried : ~Absorbed(calls[k])
    /\ \A k \in DOMAIN run.previous[Len(run.previous)].calls :
         ~run.previous[Len(run.previous)].calls[k].netErr

\* every row has the seven snapshot values the run before left it with
SameSnapshots ==
    \A j \in DOMAIN data :
        data[j].snap = run.previous[Len(run.previous)].data[j].snap

\* C18 as claimed: two runs one after the other over the same list and on
\* the same chain, none of whose addresses failed, leave every row with
\* the same seven snapshot values.
C18_RunsAgree ==
    (run.pc = "done" /\ Len(run.previous) >= 1 /\ NoAddressFailed)
      => SameSnapshots

\* C18 as amended: they do when, moreover, no request of either run failed
\* at network level; a request of queryTotalStaking or of a collection
\* fetch that fails is absorbed, the address succeeds, and its snapshot
\* carries 0 or a partial sum where the other run has the full value.
C18_RunsAgreeWhenAnswered ==
    (run.pc = "done" /\ Len(run.previous) >= 1 /\ NoAddressFailed
       /\ NoRequestFailed)
      => SameSnapshots

\* two runs have ended without an address failure or a failed request,
\* at different times, and the rows carry a stake and a total
C18_Witness ==
    /\ run.pc = "done" /\ Len(run.previous) >= 1
    /\ NoAddressFailed /\ NoRequestFailed
    /\ \A j \in DOMAIN data :
         /\ data[j].snap.airdropEnergyStaking > 0
         /\ data[j].snap.totalStaking > 0
         /\ data[j].lastUpdated
              > run.previous[Len(run.previous)].data[j].lastUpdated

(***************************************************************************)
(* Properties of the progress reports (SpecProgress).                      *)
(***************************************************************************)
\* the progress values set since the run began, without the initial 0
Reports == Tail(run.reported)

\* what every run does: it sets the progress to 0, then sets it once for
\* each address it has processed, whether the query returned or threw; the
\* values never decrease, and the last one of a run over n >= 1 addresses
\* is 100
ReportsInStep ==
    /\ run.reported[1] = 0
    /\ Len(Reports) = run.i
    /\ \A c \in 1..run.i : calls[c].stat \in { "ok", "failed" }
    /\ \A c \in 1..(Len(run.reported) - 1) :
         run.reported[c] <= run.reported[c + 1]
    /\ updateProgress = run.reported[Len(run.reported)]
    /\ run.pc = "done" =>
         /\ run.i = Len(DedupKeys)
         /\ Len(DedupKeys) >= 1 => updateProgress = 100

\* 100 * c / n rounded to the nearest integer, a tie going up
RoundedShare(c, n) == (200 * c + n) \div (2 * n)

\* p is an integer nearest to 100 * c / n
NearestShare(p, c, n) == 200 * c - n <= 2 * p * n /\ 2 * p * n <= 200 * c + n

\* C14 as claimed: the value set after the c-th of n addresses is
\* round(100 * c / n).
C14_ExactRounding ==
    run.pc \in { "await", "done" } =>
        /\ ReportsInStep
        /\ \A c \in DOMAIN Reports :
             Reports[c] = RoundedShare(c, Len(DedupKeys))

\* C14 as amended: the value set after the c-th of n addresses is an
\* integer nearest to 100 * c / n; where 100 * c / n lies halfway between
\* two integers it is the upper or the lower one, as the rounding of the
\* floating-point quotient and product has it.
C14_NearestInteger ==
    run.pc \in { "await", "done" } =>
        /\ ReportsInStep
        /\ \A c \in DOMAIN Reports :
             NearestShare(Reports[c], c, Len(DedupKeys))

\* a run over 40 addresses has ended; after the 5th it reported 13 for
\* 12.5, after the 23rd 57 for 57.5
C14_Witness ==
    /\ run.pc = "done"
    /\ Len(DedupKeys) = 40
    /\ Reports[5] = 13
    /\ Reports[23] = 57
    /\ Reports[40] = 100

(***************************************************************************)
(* Termination of the batch run (SpecLive).                                *)
(***************************************************************************)
\* the invocation of runBatchUpdate has returned: isUpdating is false again
\* and the rows are saved
Finished == run.pc = "done" /\ ~isUpdating /\ saved = data

\* C15: when every request in flight eventually settles, every run that
\* was started eventually finishes, whichever of its addresses fail; the
\* run is the only thing that holds isUpdating, and once it has returned
\* the rows saved are the rows shown.
C15_RunTerminates ==
    /\ [](isUpdating <=> run.pc = "await")
    /\ [](run.pc = "done" => Finished)
    /\ (run.pc # "idle") ~> Finished

\* a run over two addresses has finished after both of them failed
C15_Witness ==
    /\ Finished
    /\ Len(DedupKeys) = 2
    /\ calls[1].stat = "failed"
    /\ calls[2].stat = "failed"

(***************************************************************************)
(* Outcomes with success = false (SpecSnap).                               *)
(***************************************************************************)
\* the item calls among itemCalls that the chain answers with success
Succeeded(itemCalls) ==
    SelectSeq(itemCalls, LAMBDA call : ItemAnswer(chain, call).success)

\* C16: the bytes of an outcome with success = false are never decoded.
\* In the simple batch such an outcome yields the field 0 without a decode
\* (what a revert leaves would decode to another value); after the count
\* batch no item call is enqueued for a contract whose count call failed;
\* and the total of a fetch that ran to its end is made of the items whose
\* call succeeded alone.
C16_FailedOutcomeNotDecoded ==
    \A k \in QueryIds :
        LET q == calls[k]
        IN  /\ \A j \in DOMAIN q.simple.results :
                 ~q.simple.results[j].success =>
                    /\ simpleField(q.simple.results[j])
                          = [ threw |-> FALSE, value |-> 0 ]
                    /\ q.stat = "ok" => q.result[SimpleFieldOf(j)] = 0
            /\ \A f \in Families :
                 LET fr == q.fetch[f]
                     countsResults ==
                         tryAggregate(chain, countCalls(f, q.aAddress))
                 IN  /\ \A c \in 1..NumContracts, n \in DOMAIN fr.itemCalls :
                          ~countsResults[c].success
                             => fr.itemCalls[n].target # Contracts(f)[c]
                     /\ (fr.pc = "done" /\ ~fr.netErr /\ ~fr.threw) =>
                          fr.total = SumOf(Succeeded(fr.itemCalls),
                                           Len(Succeeded(fr.itemCalls)))

\* a query returned on the chain on which a call of each batch reverts:
\* the reverted turbine call and the reverted stake item left 0, and the
\* bond of the contract whose count call succeeded was counted
C16_Witness ==
    /\ chain = RevertingChain
    /\ calls[1].stat = "ok"
    /\ ~calls[1].simple.results[1].success
    /\ calls[1].result.turbineBalance = 0
    /\ Len(calls[1].fetch["stake"].itemCalls) = 1
    /\ calls[1].result.airdropEnergyStaking = 0
    /\ Len(calls[1].fetch["bond"].itemCalls) = 1
    /\ calls[1].result.bondStaking = 2

(***************************************************************************)
(* The provider cache (SpecProvider).                                      *)
(***************************************************************************)
\* C17 as claimed: a call with the URL of the call before it returns the
\* provider that call returned, and creates none; and the provider a call
\* returns was created for the URL of that call, or for the fallback URL
\* when no provider can be created for that URL.
C17_CacheKeyedOnUrl ==
    \A n \in DOMAIN lookups :
        /\ lookups[n].provider.url =
              (IF lookups[n].rpcUrl \in InvalidUrls
               THEN FALLBACK_RPC ELSE lookups[n].rpcUrl)
        /\ (n > 1 /\ lookups[n].rpcUrl = lookups[n - 1].rpcUrl)
              => lookups[n].provider = lookups[n - 1].provider

(***************************************************************************)
(* The payload of queryTotalStaking (SpecPayload).                         *)
(***************************************************************************)
\* the positions of a payload that hold the address
Slot(payload) == 2..(Len(payload) - 1)

\* C19: the payload sent for an address is the template with the
\* lower-cased characters of the address after "0x" in its slot, the text
\* before and after the slot being that of the template; the payload of
\* any other address has the same length and differs from it in the slot
\* at most, and the payload of another spelling of the address is the same.
C19_PayloadSlot ==
    \A k \in QueryIds :
        calls[k].total.pc # "idle" =>
            LET address == calls[k].aAddress
                payload == calls[k].total.data
            IN  /\ Len(payload) = HexDigits + 2
                /\ payload[1] = TEMPLATE_HEAD
                /\ payload[Len(payload)] = TEMPLATE_TAIL
                /\ \A j \in 1..HexDigits :
                     payload[j + 1] = LowerChar(address[j + 2])
                /\ \A j \in Slot(payload) :
                     payload[j] \in { HexChars[h] : h \in DOMAIN HexChars }
                /\ \A other \in PayloadAddresses :
                     /\ Len(callData(other)) = Len(payload)
                     /\ \A j \in DOMAIN payload :
                          j \notin Slot(payload) => callData(other)[j] = payload[j]
                     /\ toLowerCase(other) = toLowerCase(address)
                          => callData(other) = payload

\* the request for an address spelled in upper case was sent and answered
C19_Witness ==
    /\ calls[1].total.pc = "done"
    /\ toLowerCase(calls[1].aAddress) # calls[1].aAddress
    /\ \A j \in 3..Len(calls[1].aAddress) :
         LowerChar(calls[1].aAddress[j]) \in { "a", "b", "f" }
    /\ calls[1].total.data = callData(toLowerCase(calls[1].aAddress))

(***************************************************************************)
(* The enumeration of the item calls (SpecFetch).                          *)
(***************************************************************************)
\* the item calls among itemCalls that target contract c of family f
CallsTo(itemCalls, f, c) ==
    SelectSeq(itemCalls, LAMBDA call : call.target = Contracts(f)[c])

\* C20 as claimed: once the count batch is answered, the item calls
\* enqueued for a contract whose count call succeeded and decodes to N
\* are those of the indexes 0, 1, ..., N-1, in this order, each with the
\* item method and the queried address; no item call targets a contract
\* whose count call failed or does not decode; and the item calls of a
\* contract come before those of the contracts after it in the list.
C20_Enumeration ==
    \A fr \in Fetches :
        (fr.pc \in { "chunk", "done" } /\ ~fr.netErr) =>
            /\ \A c \in 1..NumContracts :
                 CallsTo(fr.itemCalls, fr.f, c) =
                    IF chain.count[fr.f][c].kind = "len"
                    THEN [ n \in 1..chain.count[fr.f][c].n |->
                             Call(Contracts(fr.f)[c], itemMethod(fr.f),
                                  fr.address, n - 1) ]
                    ELSE <<>>
            /\ \A a, b \in DOMAIN fr.itemCalls :
                 a < b => fr.itemCalls[a].target[2] <= fr.itemCalls[b].target[2]
            /\ \A n \in DOMAIN fr.itemCalls :
                 fr.itemCalls[n].target[1] = fr.f

(***************************************************************************)
(* The extraction rules in the snapshot (SpecSnap).                        *)
(***************************************************************************)
\* C21: in a snapshot that was returned, airdropEnergyStaking is the sum
\* of the principal of the stake items that exist, and bondStaking the sum
\* of the payout of the bond items that have an owner, over the items the
\* fetch has processed: all its item calls when no round trip and no
\* decode failed, a prefix of them otherwise.  An item that is filtered
\* out, reverts or was not processed adds nothing.
C21_ExtractionFilters ==
    \A k \in QueryIds, f \in Families :
        LET q == calls[k]
            fr == q.fetch[f]
            n == Len(fr.itemCalls)
        IN  q.stat = "ok" =>
              /\ \E p \in 0..n :
                   q.result[FamilyFieldOf(f)] = SumOf(fr.itemCalls, p)
              /\ (~fr.netErr /\ ~fr.threw) =>
                   q.result[FamilyFieldOf(f)] = SumOf(fr.itemCalls, n)

\* a snapshot was returned on the chain where the first stake does not
\* exist and the first bond has no owner: only the other items count
C21_Witness ==
    /\ chain = FilteredChain
    /\ calls[1].stat = "ok"
    /\ \A f \in Families :
         /\ ~calls[1].fetch[f].netErr
         /\ Len(calls[1].fetch[f].itemCalls) = NumContracts
         /\ ItemAnswer(chain, calls[1].fetch[f].itemCalls[1]).success
    /\ ItemAnswer(chain, calls[1].fetch["stake"].itemCalls[1]).returnData[2] = FALSE
    /\ ItemAnswer(chain, calls[1].fetch["bond"].itemCalls[1]).returnData[2] = ZeroAddress
    /\ calls[1].result.airdropEnergyStaking = NumContracts - 1
    /\ calls[1].result.bondStaking = 2 * (NumContracts - 1)

(***************************************************************************)
(* The keying of the simple batch (SpecSnap).                              *)
(***************************************************************************)
\* the contract a simple field is read from, the amount it holds for
\* account 0, and whether it is asked about the primary address
SimpleSource(j) ==
    CASE j = 1 -> [ target |-> "turbine", base |-> 10, primary |-> TRUE ]
      [] j = 2 -> [ target |-> "zhuwang", base |-> 20, primary |-> TRUE ]
      [] j = 3 -> [ target |-> "lgns", base |-> 30, primary |-> FALSE ]
      [] OTHER -> [ target |-> "slgns", base |-> 40, primary |-> FALSE ]

\* C22: the simple batch is answered by four outcomes, in the order
\* turbine, zhuwang, lgns, slgns; in a returned snapshot turbineBalance and
\* zhuwangReward are what the turbine and zhuwang contracts hold for the
\* primary address, lgnsBalance and slgnsBalance what the two tokens hold
\* for the derived address, and each of the four is 0 when its own call
\* reverted, whatever became of the other three.
C22_SimpleKeying ==
    \A k \in QueryIds :
        LET q == calls[k]
        IN  q.stat = "ok" =>
              /\ DOMAIN q.simple.results = 1..4
              /\ \A j \in 1..4 :
                   LET src == SimpleSource(j)
                       kind == chain.simple[src.target]
                       asked == IF src.primary THEN q.aAddress
                                ELSE q.derivedAddress
                   IN  /\ q.simple.results[j].success <=> kind # "rev"
                       /\ q.result[SimpleFieldOf(j)] =
                            IF kind = "ok" THEN src.base + AccountNo(asked)
                            ELSE 0

\* a snapshot was returned although the turbine and the lgns call
\* reverted: the two other fields hold the amounts of the primary and of
\* the derived address
C22_Witness ==
    /\ calls[1].stat = "ok"
    /\ AccountNo(calls[1].aAddress) # AccountNo(calls[1].derivedAddress)
    /\ ~calls[1].simple.results[1].success
    /\ ~calls[1].simple.results[3].success
    /\ calls[1].result.turbineBalance = 0
    /\ calls[1].result.zhuwangReward = 20 + AccountNo(calls[1].aAddress)
    /\ calls[1].result.lgnsBalance = 0
    /\ calls[1].result.slgnsBalance = 40 + AccountNo(calls[1].derivedAddress)

(***************************************************************************)
(* What a fetch returns after a failure (SpecFetch).                       *)
(***************************************************************************)
\* whether item call j of itemCalls is answered with success and with bytes
\* that do not decode
Undecodable(itemCalls, j) ==
    LET res == ItemAnswer(chain, itemCalls[j])
    IN  res.success /\ Len(res.returnData) < 2

\* the number of item calls before the first undecodable one
DecodablePrefix(itemCalls) ==
    IF \E j \in DOMAIN itemCalls : Undecodable(itemCalls, j)
    THEN (CHOOSE j \in DOMAIN itemCalls :
            /\ Undecodable(itemCalls, j)
            /\ \A h \in 1..(j - 1) : ~Undecodable(itemCalls, h)) - 1
    ELSE Len(itemCalls)

\* C23: a fetch always returns; its total is never negative and is the
\* sum of the contributions of a prefix of its item calls: none when the
\* count batch failed or did not decode, the item calls of the chunks
\* before the one whose round trip failed, the item calls before the first
\* that does not decode, and all of them when nothing failed.
C23_TotalOfPrefix ==
    \A fr \in Fetches :
        LET n == Len(fr.itemCalls)
        IN  /\ fr.total >= 0
            /\ fr.pc \in { "idle", "count", "chunk", "done" }
            /\ fr.pc = "done" =>
                 fr.total = SumOf(fr.itemCalls,
                     IF fr.trips = <<>> THEN 0
                     ELSE IF fr.netErr THEN CHUNK_SIZE * (Len(fr.trips) - 1)
                     ELSE IF fr.threw THEN DecodablePrefix(fr.itemCalls)
                     ELSE n)
            /\ (fr.pc = "done" /\ fr.threw /\ fr.trips # <<>>) =>
                 DecodablePrefix(fr.itemCalls) < n

\* the round trip of the second chunk failed and the fetch returned the
\* sum of the first chunk
C23_Witness ==
    \E fr \in Fetches :
        /\ fr.pc = "done"
        /\ fr.netErr
        /\ Len(fr.trips) = 2
        /\ Len(fr.itemCalls) > CHUNK_SIZE
        /\ fr.total = SumOf(fr.itemCalls, CHUNK_SIZE)
        /\ fr.total > 0
        /\ fr.total < SumOf(fr.itemCalls, Len(fr.itemCalls))

(***************************************************************************)
(* Invocations of runBatchUpdate during a run (SpecClicks).                *)
(***************************************************************************)
\* C24: isUpdating is true exactly while the one run awaits, no second
\* run is ever in flight beside it, and an invocation of runBatchUpdate
\* during the run issues no query and leaves the progress, the rows, the
\* storage and the run as they are.
C24_OneRunInFlight ==
    /\ [](~run.overlap /\ (isUpdating <=> run.pc = "await"))
    /\ [][ (run.pc = "await" /\ run'.ignored = run.ignored + 1) =>
             /\ isUpdating /\ isUpdating'
             /\ run' = [ run EXCEPT !.ignored = run.ignored + 1 ]
             /\ UNCHANGED << calls, lookups, currentProvider, updateProgress,
                             data, saved >> ]_vars

\* runBatchUpdate was invoked MaxIgnored times during a run over two
\* addresses, which then finished
C24_Witness ==
    /\ run.pc = "done"
    /\ ~isUpdating
    /\ run.ignored = MaxIgnored
    /\ Len(run.queried) = 2
    /\ calls[2].stat = "ok"

(***************************************************************************)
(* The run and the user's changes of the list (SpecEdit).                  *)
(***************************************************************************)
\* the fields of a row that are not the snapshot nor lastUpdated
StaticFields == { "aAddress", "derivedAddress", "remark", "log", "split" }

\* C25: every step of a run leaves the number and the order of the rows of
\* the list as it is at that step, and aAddress, derivedAddress, remark, log
\* and split of each row, also after remark edits and imports made during
\* the run.
C25_RunKeepsStaticFields ==
    [][ run' # run =>
          /\ Len(data') = Len(data)
          /\ \A j \in DOMAIN data :
                \A fld \in StaticFields : data'[j][fld] = data[j][fld] ]_vars

\* a remark was edited after the first address step of a run over two
\* addresses and before its second; the run has ended, the row has the
\* edited remark and the snapshot of the run
C25_Witness ==
    /\ run.pc = "done"
    /\ Len(run.queried) = 2
    /\ \E n \in DOMAIN edits :
         /\ edits[n].kind = "remark"
         /\ edits[n].pc = "await"
         /\ edits[n].i = 1
         /\ edits[n].idx + 1 \in DOMAIN data \cap DOMAIN run.pairs
         /\ edits[n].before[edits[n].idx + 1].lastUpdated # 0
         /\ data[edits[n].idx + 1].remark = edits[n].value
         /\ run.pairs[edits[n].idx + 1].remark # edits[n].value
         /\ data[edits[n].idx + 1].snap # NoSnapshot
    /\ \A j \in DOMAIN data : data[j].lastUpdated # 0
    /\ saved = data

(***************************************************************************)
(* The remark cell of the filtered table (SpecTable).                      *)
(***************************************************************************)
\* the position in rows of the record the table shows at position idx
\* (from 0) under the search term
ShownAt(rows, term, idx) ==
    CHOOSE j \in DOMAIN rows :
        /\ matchesSearch(rows[j], term)
        /\ Cardinality({ h \in 1..(j - 1) : matchesSearch(rows[h], term) }) = idx

\* C26: a remark edit of the row shown at position idx gives the new remark
\* to the record shown there and changes nothing else of the list, whatever
\* the search term, and the list after the change is what is saved.
C26_EditChangesShownRecord ==
    \A n \in DOMAIN edits :
        edits[n].kind = "remark" =>
            LET e == edits[n]
                shown == ShownAt(e.before, e.term, e.idx)
            IN  /\ e.after = [ e.before EXCEPT ![shown].remark = e.value ]
                /\ e.stored = e.after

====
